---- MODULE Spec2Model ----
(***************************************************************************)
(* Report generator: TaskManager (ordered task list), ReportManager        *)
(* (scalar fields, report text, restore/reset), StorageManager             *)
(* (localStorage draft, capped history, quota recovery) and the App        *)
(* handlers that wire them together.                                       *)
(*                                                                         *)
(* Every method of the source is an operator from a world record (the      *)
(* fields of the three singletons plus the localStorage items) to the      *)
(* world after the call, so that a handler is the composition of the       *)
(* calls it makes, in the order the source makes them.  An action applies  *)
(* one public operation or one handler to the current world.               *)
(*                                                                         *)
(* JavaScript values: strings are strings; the return value of the last    *)
(* call is kept as its literal ("true", "false", "undefined", or the       *)
(* decimal index addTask returns); an object with optional members is a    *)
(* record whose DOMAIN holds the members that are present.                 *)
(***************************************************************************)
EXTENDS Integers, Sequences, FiniteSets, TLC

(***************************************************************************)
(* Bounds of the model.                                                    *)
(***************************************************************************)
\* addTask calls explored on the bare task list
MaxAdds == 3
\* setTasks, clearTasks and fromJSON calls explored on it
MaxAssigns == 1
\* history appends explored on top of the history found in storage
MaxClock == 2
\* task records a live list may hold in the report and application layers
MaxTasks == MaxAdds - 1
\* task records of the lists a report is generated from
MaxReportTasks == 3
\* events of a session of the page: clicks and inputs
MaxSteps == 5

(***************************************************************************)
(* Program constants.                                                      *)
(***************************************************************************)
MAX_HISTORY_ITEMS == 20
\* handleQuotaExceeded evicts only when the history is longer than this
QUOTA_MIN_HISTORY == 5

VARIABLES
    state,              \* ReportManager.state
    tasks,              \* TaskManager.tasks
    reportData,         \* localStorage item 'reportData'
    reportHistory,      \* localStorage item 'reportHistory'
    theme,              \* localStorage item 'theme'
    isAvailable,        \* StorageManager.isAvailable
    pendingAction,      \* App.pendingAction
    pendingRestoreData, \* App.pendingRestoreData
    output,             \* App.elements.output.value, the report last generated
    rows,               \* the task rows renderTasks last put in the page
    historyList,        \* the history items renderHistory last put in the page
    historyShown,       \* the history modal carries the class 'active'
    dataTheme,          \* the attribute data-theme of the document element
    pendingItem,        \* which of those items pendingRestoreData is the data of:
                        \* its position in historyList, 0 when it is of none
    pendingAliased,     \* the tasks array of pendingRestoreData is the very array
                        \* that is TaskManager.tasks, whether or not the page
                        \* still holds the item pendingRestoreData is the data of
    denied,             \* the browser denies the page access to localStorage:
                        \* reading window.localStorage throws
    aliased,            \* which of those items holds, as its data.tasks, the very
                        \* array that is TaskManager.tasks: its position, 0 for none
    ret,                \* literal of the value the last operation returned
    taskNotified,       \* TaskManager.notifyListeners calls made by the last operation
    reportNotified,     \* ReportManager.notifyListeners calls made by the last operation
    clock,              \* readings of new Date() taken so far by history appends
    time,               \* the second the clock showed at the last of those
                        \* readings, counted from the second of the first
    access,             \* localStorage calls made by the last operation, by method,
                        \* and how many of them threw
    last,               \* the operation that ran last, with its arguments
    adds,               \* addTask calls made on the bare task list
    removes,            \* removeTask calls that returned true on the bare task list
    assigns,            \* setTasks, clearTasks and fromJSON calls made on it
    steps               \* events the page has handled since App.init

vars == <<state, tasks, reportData, reportHistory, theme, isAvailable,
          pendingAction, pendingRestoreData, output, rows, historyList,
          historyShown, dataTheme, pendingItem, pendingAliased, denied,
          aliased, ret, taskNotified,
          reportNotified, clock, time, access, last, adds, removes, assigns,
          steps>>

(***************************************************************************)
(* JavaScript helpers.                                                     *)
(***************************************************************************)
\* obj.f is present
Has(obj, f) == f \in DOMAIN obj

\* obj.f || dflt, for a string member
OrElse(obj, f, dflt) == IF Has(obj, f) /\ obj[f] # "" THEN obj[f] ELSE dflt

\* {...a, ...b}
Spread(a, b) ==
    [f \in DOMAIN a \cup DOMAIN b |-> IF f \in DOMAIN b THEN b[f] ELSE a[f]]

\* a localStorage item: getItem gives null for "absent", the stored JSON text
\* parsed back for "value"; "corrupt" is a text JSON.parse throws on, and
\* "object" a text that parses to an object that is no array and has no
\* member length, such as {}; "arraylike" is the text of an object that is
\* no array and has a member length: the number n in {"length": n}, or,
\* quoted, the decimal text of n in {"length": "n"}
Absent(dflt) == [kind |-> "absent", val |-> dflt]
Stored(v) == [kind |-> "value", val |-> v]
Corrupt(dflt) == [kind |-> "corrupt", val |-> dflt]
NotArray(dflt) == [kind |-> "object", val |-> dflt]
ArrayLike(dflt, n, quoted) ==
    [kind |-> "arraylike", val |-> dflt, length |-> n, quoted |-> quoted]

(***************************************************************************)
(* The world.                                                              *)
(***************************************************************************)
EmptyState == [workBom |-> "", projectName |-> "", problems |-> ""]

BlankTask == [detail |-> "", status |-> "OK", remark |-> ""]

Task(detail, status, remark) == [detail |-> detail, status |-> status, remark |-> remark]

\* a snapshot with every member present
Snapshot(st, ts) ==
    [workBom |-> st.workBom, projectName |-> st.projectName,
     problems |-> st.problems, tasks |-> ts]

NoSnapshot == Snapshot(EmptyState, <<>>)

W ==
    [state |-> state, tasks |-> tasks, reportData |-> reportData,
     reportHistory |-> reportHistory, theme |-> theme,
     isAvailable |-> isAvailable, pendingAction |-> pendingAction,
     pendingRestoreData |-> pendingRestoreData, output |-> output,
     rows |-> rows, historyList |-> historyList,
     historyShown |-> historyShown, dataTheme |-> dataTheme,
     pendingItem |-> pendingItem, pendingAliased |-> pendingAliased,
     denied |-> denied, aliased |-> aliased,
     ret |-> ret, taskNotified |-> taskNotified,
     reportNotified |-> reportNotified, clock |-> clock, time |-> time,
     access |-> access]

\* the world as an operation finds it: nothing returned or notified yet
NoAccess == [getItem |-> 0, setItem |-> 0, removeItem |-> 0, keys |-> 0, threw |-> 0]

Begin ==
    [W EXCEPT !.ret = "undefined", !.taskNotified = 0, !.reportNotified = 0,
              !.access = NoAccess]

\* the world an operation leaves becomes the next state
Becomes(w) ==
    /\ state' = w.state
    /\ tasks' = w.tasks
    /\ reportData' = w.reportData
    /\ reportHistory' = w.reportHistory
    /\ theme' = w.theme
    /\ isAvailable' = w.isAvailable
    /\ pendingAction' = w.pendingAction
    /\ pendingRestoreData' = w.pendingRestoreData
    /\ output' = w.output
    /\ rows' = w.rows
    /\ historyList' = w.historyList
    /\ historyShown' = w.historyShown
    /\ dataTheme' = w.dataTheme
    /\ pendingItem' = w.pendingItem
    /\ pendingAliased' = w.pendingAliased
    /\ denied' = w.denied
    /\ aliased' = w.aliased
    /\ ret' = w.ret
    /\ taskNotified' = w.taskNotified
    /\ reportNotified' = w.reportNotified
    /\ clock' = w.clock
    /\ time' = w.time
    /\ access' = w.access

Op(name, index) == [op |-> name, index |-> index]

(***************************************************************************)
(* TaskManager                                                             *)
(***************************************************************************)
TaskManager_notifyListeners(w) == [w EXCEPT !.taskNotified = @ + 1]

\* this.tasks is an array object.  push, splice and an assignment to an
\* element change that object in place, so that whoever else holds it sees
\* the change: after restoreFromHistory it is the data.tasks of the history
\* item the user selected, which the page holds until the history is
\* rendered anew, and it is the tasks of pendingRestoreData when that item
\* has been selected again since
InPlace(w) ==
    LET w1 == IF w.aliased = 0
              THEN w
              ELSE [w EXCEPT !.historyList[w.aliased].data.tasks = w.tasks]
    IN  IF w.pendingAliased
        THEN [w1 EXCEPT !.pendingRestoreData.val.tasks = w.tasks]
        ELSE w1

\* who else holds an array handed to the task list: an item of the history
\* list of the page (0 for none), and pendingRestoreData.  Unshared is an
\* array nobody else holds, as JSON.parse and a literal make one;
\* ListSharing(w) is the sharing of the list itself, which getTasks() and
\* getState().tasks hand out
Unshared == [item |-> 0, pending |-> FALSE]

ListSharing(w) == [item |-> w.aliased, pending |-> w.pendingAliased]

\* this.tasks = ts: the list is from now on the array handed over, with
\* whoever else holds that array; when it is the list itself that is handed
\* over, nothing changes
Reassigned(w, ts, sharing) ==
    [w EXCEPT !.tasks = ts,
              !.aliased = sharing.item,
              !.pendingAliased = sharing.pending]

\* setTasks(tasks), tasks being an array with the elements ts that is
\* shared as sharing says (tasks || [] : the caller gives <<>> and Unshared
\* for an argument that is missing)
setTasks(w, ts, sharing) == TaskManager_notifyListeners(Reassigned(w, ts, sharing))

getTasks(w) == w.tasks

addTask(w, task) ==
    LET newTask == [detail |-> OrElse(task, "detail", ""),
                    status |-> OrElse(task, "status", "OK"),
                    remark |-> OrElse(task, "remark", "")]
        pushed == InPlace([w EXCEPT !.tasks = Append(@, newTask)])
    IN  [TaskManager_notifyListeners(pushed)
            EXCEPT !.ret = ToString(Len(pushed.tasks) - 1)]

\* updateTask that builds the record from the update alone, over the defaults
updateTask_replaces(w, index, updates) ==
    IF index < 0 \/ index >= Len(w.tasks)
    THEN [w EXCEPT !.ret = "false"]
    ELSE [TaskManager_notifyListeners(
            InPlace([w EXCEPT !.tasks[index + 1] = Spread(BlankTask, updates)]))
            EXCEPT !.ret = "true"]

updateTask(w, index, updates) ==
    IF index < 0 \/ index >= Len(w.tasks)
    THEN [w EXCEPT !.ret = "false"]
    ELSE [TaskManager_notifyListeners(
            InPlace([w EXCEPT !.tasks[index + 1] = Spread(@, updates)]))
            EXCEPT !.ret = "true"]

\* updateTask handed, for index, a text that is no number, as the Enter key
\* of a remark field hands it 'addNew': neither comparison of the range test
\* holds of such a text, the assignment gives the array a member of that
\* name and changes none of its elements, and the listeners are notified
updateTask_named(w, name, updates) ==
    [TaskManager_notifyListeners(w) EXCEPT !.ret = "true"]

\* Array.prototype.splice(index, 1)
Splice1(s, index) ==
    IF index >= Len(s)
    THEN s
    ELSE [k \in 1..(Len(s) - 1) |-> IF k <= index THEN s[k] ELSE s[k + 1]]

\* removeTask with its range check off by one: index = length is accepted
removeTask_offByOne(w, index) ==
    IF index < 0 \/ index > Len(w.tasks)
    THEN [w EXCEPT !.ret = "false"]
    ELSE [TaskManager_notifyListeners(
            InPlace([w EXCEPT !.tasks = Splice1(@, index)]))
            EXCEPT !.ret = "true"]

removeTask(w, index) ==
    IF index < 0 \/ index >= Len(w.tasks)
    THEN [w EXCEPT !.ret = "false"]
    ELSE [TaskManager_notifyListeners(
            InPlace([w EXCEPT !.tasks = Splice1(@, index)]))
            EXCEPT !.ret = "true"]

\* [s[i], s[j]] = [s[j], s[i]], zero-based
Swap(s, i, j) ==
    [k \in 1..Len(s) |->
        IF k = i + 1 THEN s[j + 1] ELSE IF k = j + 1 THEN s[i + 1] ELSE s[k]]

\* moveTaskUp without the boundary check at index 0
moveTaskUp_noBoundary(w, index) ==
    IF index < 0 \/ index >= Len(w.tasks)
    THEN [w EXCEPT !.ret = "false"]
    ELSE [TaskManager_notifyListeners(
            InPlace([w EXCEPT !.tasks = Swap(@, IF index = 0 THEN 0 ELSE index - 1, index)]))
            EXCEPT !.ret = "true"]

moveTaskUp(w, index) ==
    IF index <= 0 \/ index >= Len(w.tasks)
    THEN [w EXCEPT !.ret = "false"]
    ELSE [TaskManager_notifyListeners(
            InPlace([w EXCEPT !.tasks = Swap(@, index - 1, index)]))
            EXCEPT !.ret = "true"]

\* moveTaskDown that writes the record over its successor and forgets to
\* write the successor back
moveTaskDown_overwrites(w, index) ==
    IF index < 0 \/ index >= Len(w.tasks) - 1
    THEN [w EXCEPT !.ret = "false"]
    ELSE [TaskManager_notifyListeners(
            InPlace([w EXCEPT !.tasks[index + 2] = w.tasks[index + 1]]))
            EXCEPT !.ret = "true"]

moveTaskDown(w, index) ==
    IF index < 0 \/ index >= Len(w.tasks) - 1
    THEN [w EXCEPT !.ret = "false"]
    ELSE [TaskManager_notifyListeners(
            InPlace([w EXCEPT !.tasks = Swap(@, index, index + 1)]))
            EXCEPT !.ret = "true"]

TaskManager_clearTasks(w) ==
    TaskManager_notifyListeners(Reassigned(w, <<>>, Unshared))

\* toJSON: the text of the list, given as the item it makes
toJSON(w) == Stored(w.tasks)

\* fromJSON: json is the text handed in, given as what JSON.parse makes of
\* it: "value" is the text of an array, "object" and "arraylike" the text
\* of something else, "corrupt" a text JSON.parse throws on
fromJSON(w, json) ==
    IF json.kind = "value"
    THEN [setTasks(w, json.val, Unshared) EXCEPT !.ret = "true"]
    ELSE [w EXCEPT !.ret = "false"]

(***************************************************************************)
(* StorageManager                                                          *)
(*                                                                         *)
(* A localStorage item is kept as the value its JSON text parses back to:  *)
(* the drafts and histories written here are plain objects, arrays and     *)
(* strings, which JSON.stringify and JSON.parse carry over member for      *)
(* member.  Each setItem call of an operation is handed its outcome by     *)
(* the environment: wr.main for the write the operation is about, wr.evict *)
(* for the write handleQuotaExceeded makes; an outcome other than "ok" is  *)
(* the name of the error setItem throws.                                   *)
(***************************************************************************)
\* one more call of a localStorage method
Called(w, method) == [w EXCEPT !.access[method] = @ + 1]

\* checkLocalStorageAvailable sets a probe item and removes it; probe is
\* what the browser does with that: "ok", the name of the error setItem
\* throws, or "SecurityError" when reading window.localStorage itself
\* throws, before any call is made
checkLocalStorageAvailable(w, probe) ==
    IF probe = "ok"
    THEN [Called(Called(w, "setItem"), "removeItem") EXCEPT !.ret = "true"]
    ELSE IF probe = "SecurityError"
    THEN [w EXCEPT !.ret = "false"]
    ELSE [Called(Called(w, "setItem"), "threw") EXCEPT !.ret = "false"]

\* the constructor of StorageManager
StorageManager_constructor(w, probe) ==
    LET w1 == checkLocalStorageAvailable(w, probe)
    IN  [w1 EXCEPT !.isAvailable = (w1.ret = "true"), !.ret = "undefined"]

\* localStorage.setItem(key, text), the text given as the item it makes,
\* with the outcome the call is handed
setItemText(w, key, item, outcome) ==
    IF outcome = "ok"
    THEN [Called(w, "setItem") EXCEPT ![key] = item]
    ELSE Called(Called(w, "setItem"), "threw")

\* localStorage.setItem(key, JSON text of v), with the outcome it is handed
setItem(w, key, v, outcome) == setItemText(w, key, Stored(v), outcome)

\* localStorage.removeItem(key), with the outcome it is handed
removeItem(w, key, dflt, outcome) ==
    IF outcome = "ok"
    THEN [Called(w, "removeItem") EXCEPT ![key] = Absent(dflt)]
    ELSE Called(Called(w, "removeItem"), "threw")

\* loadHistory: whether what it returns is an array, the array it returns
\* when it is one, and the world after the call.  A text that does not
\* parse is caught and gives []; a text that parses is returned as parsed
loadHistory_isArray(w) ==
    ~w.isAvailable \/ w.reportHistory.kind \notin {"object", "arraylike"}

loadHistory(w) ==
    IF ~w.isAvailable THEN <<>>
    ELSE IF w.reportHistory.kind = "value" THEN w.reportHistory.val
    ELSE <<>>

loadHistory_after(w) == IF ~w.isAvailable THEN w ELSE Called(w, "getItem")

\* loadReportData: the draft it returns ("absent" for null), and the world
\* after the call
loadReportData(w) ==
    IF ~w.isAvailable THEN Absent(NoSnapshot)
    ELSE IF w.reportData.kind = "value" THEN w.reportData
    ELSE Absent(NoSnapshot)

loadReportData_after(w) == IF ~w.isAvailable THEN w ELSE Called(w, "getItem")

\* history.length = n, for n <= history.length
SetLength(history, n) == SubSeq(history, 1, n)

\* Math.floor(n / 2), for n >= 0
HalfLength(n) == n \div 2

\* history.length of what loadHistory returns, as the number a comparison
\* or a division makes of it: the length of an array, the member of an
\* object that has one (a decimal text is converted), and for undefined,
\* which no number is above or below, none
HasLength(w) == loadHistory_isArray(w) \/ w.reportHistory.kind = "arraylike"

HistoryLength(w) ==
    IF loadHistory_isArray(w) THEN Len(loadHistory(w)) ELSE w.reportHistory.length

\* the text of what loadHistory returned after history.length = n: an
\* array is cut to its first n elements; an object that is no array gets
\* the number as its member length and keeps its other members
HistoryCutTo(w, n) ==
    IF loadHistory_isArray(w)
    THEN Stored(SetLength(loadHistory(w), n))
    ELSE [w.reportHistory EXCEPT !.length = n, !.quoted = FALSE]

\* handleQuotaExceeded with the threshold off by one: a history of 5 is cut
handleQuotaExceeded_cutsFive(w, evict) ==
    LET w1 == loadHistory_after(w)
    IN  IF HasLength(w) /\ HistoryLength(w) >= QUOTA_MIN_HISTORY
        THEN setItemText(w1, "reportHistory", HistoryCutTo(w, HalfLength(HistoryLength(w))), evict)
        ELSE w1

handleQuotaExceeded(w, evict) ==
    LET w1 == loadHistory_after(w)
    IN  IF HasLength(w) /\ HistoryLength(w) > QUOTA_MIN_HISTORY
        THEN setItemText(w1, "reportHistory", HistoryCutTo(w, HalfLength(HistoryLength(w))), evict)
        ELSE w1

\* saveReportData that runs the quota recovery on every error of the write
saveReportData_alwaysEvicts(w, data, wr) ==
    IF ~w.isAvailable THEN [w EXCEPT !.ret = "false"]
    ELSE
        LET w1 == setItem(w, "reportData", data, wr.main)
        IN  IF wr.main = "ok"
            THEN [w1 EXCEPT !.ret = "true"]
            ELSE [handleQuotaExceeded(w1, wr.evict) EXCEPT !.ret = "false"]

saveReportData(w, data, wr) ==
    IF ~w.isAvailable THEN [w EXCEPT !.ret = "false"]
    ELSE
        LET w1 == setItem(w, "reportData", data, wr.main)
        IN  IF wr.main = "ok"
            THEN [w1 EXCEPT !.ret = "true"]
            ELSE [(IF wr.main = "QuotaExceededError"
                   THEN handleQuotaExceeded(w1, wr.evict)
                   ELSE w1) EXCEPT !.ret = "false"]

\* the test of saveToHistory that forgets the detail of the first task
IsEmptyReport_lengthOnly(data) ==
    /\ data.workBom = ""
    /\ data.projectName = ""
    /\ (~Has(data, "tasks") \/ Len(data.tasks) = 0)

\* "Don't save empty reports"
IsEmptyReport(data) ==
    /\ data.workBom = ""
    /\ data.projectName = ""
    /\ (\/ ~Has(data, "tasks")
        \/ Len(data.tasks) = 0
        \/ data.tasks[1].detail = "")

\* history.unshift(historyItem)
Unshift(history, item) == <<item>> \o history

\* the cap that lets the history grow to one more than MAX_HISTORY_ITEMS
KeepMax_offByOne(history) ==
    IF Len(history) > MAX_HISTORY_ITEMS + 1
    THEN SetLength(history, MAX_HISTORY_ITEMS + 1)
    ELSE history

\* "Keep only MAX_HISTORY_ITEMS"
KeepMax(history) ==
    IF Len(history) > MAX_HISTORY_ITEMS
    THEN SetLength(history, MAX_HISTORY_ITEMS)
    ELSE history

\* new Date().toLocaleString('th-TH'): a text of date and time of day to
\* the second, here the second it names.  The clock is read elapsed whole
\* seconds after the second of its last reading: two readings within one
\* second give the same text.  Tick is the world in which the reading has
\* been taken
Timestamp(w, elapsed) == w.time + elapsed

Tick(w, elapsed) == [w EXCEPT !.clock = @ + 1, !.time = Timestamp(w, elapsed)]

StorageManager_saveToHistory(w, data, wr, elapsed) ==
    IF ~w.isAvailable THEN [w EXCEPT !.ret = "false"]
    ELSE IF IsEmptyReport(data) THEN [w EXCEPT !.ret = "false"]
    ELSE IF ~loadHistory_isArray(w)
    THEN \* history.unshift is not a function: a TypeError, caught
         [Tick(loadHistory_after(w), elapsed) EXCEPT !.ret = "false"]
    ELSE
        \* structuredClone(data): a value here has no identity of its own,
        \* so the clone is the value
        LET historyItem == [timestamp |-> Timestamp(w, elapsed), data |-> data]
            history == KeepMax(Unshift(loadHistory(w), historyItem))
            w1 == setItem(Tick(loadHistory_after(w), elapsed), "reportHistory", history, wr.main)
        IN  IF wr.main = "ok"
            THEN [w1 EXCEPT !.ret = "true"]
            ELSE [(IF wr.main = "QuotaExceededError"
                   THEN handleQuotaExceeded(w1, wr.evict)
                   ELSE w1) EXCEPT !.ret = "false"]

clearHistory(w, outcome) ==
    IF ~w.isAvailable THEN [w EXCEPT !.ret = "false"]
    ELSE [removeItem(w, "reportHistory", <<>>, outcome)
            EXCEPT !.ret = IF outcome = "ok" THEN "true" ELSE "false"]

\* getTheme: localStorage.getItem('theme') || 'light'
getTheme(w) ==
    IF ~w.isAvailable THEN [w EXCEPT !.ret = "light"]
    ELSE [Called(w, "getItem")
            EXCEPT !.ret = IF w.theme.kind = "value" /\ w.theme.val # ""
                           THEN w.theme.val
                           ELSE "light"]

saveTheme(w, th, outcome) ==
    IF ~w.isAvailable THEN [w EXCEPT !.ret = "false"]
    ELSE [setItem(w, "theme", th, outcome)
            EXCEPT !.ret = IF outcome = "ok" THEN "true" ELSE "false"]

\* getStorageQuota: used is the sum, over the keys of localStorage, of the
\* lengths of key and text, which the enumeration of the keys gives
TOTAL_BYTES == 5 * 1024 * 1024

\* Math.round(x / y) for x >= 0, y > 0, were the quotient exact
Round(x, y) == (2 * x + y) \div (2 * y)

\* (used / total) * 100 is computed in doubles.  Its exact value is a
\* multiple of 1/2^18, so the double is on the same side of the next half as
\* the exact value unless that value is the half itself, which it is when
\* used is an odd multiple of total/40; the product of the two roundings
\* then comes out below the half for the multiples listed here, and
\* Math.round goes down where the exact quotient goes up.  For used up to
\* four times the total.
RoundsBelowHalf(used) ==
    /\ used % (TOTAL_BYTES \div 40) = 0
    /\ used \div (TOTAL_BYTES \div 40) \in {23, 41, 51, 87, 97}

getStorageQuota(used) ==
    [used |-> used, total |-> TOTAL_BYTES, available |-> TOTAL_BYTES - used,
     percentUsed |-> Round(used * 25, TOTAL_BYTES \div 4)
                        - (IF RoundsBelowHalf(used) THEN 1 ELSE 0)]

\* the world after getStorageQuota has run: localStorage has been
\* enumerated; where the browser denies access, reading localStorage
\* throws before anything is called on it
getStorageQuota_after(w) == IF w.denied THEN w ELSE Called(w, "keys")

hasSpace(w, used) ==
    IF ~w.isAvailable THEN [w EXCEPT !.ret = "false"]
    ELSE IF w.denied THEN [getStorageQuota_after(w) EXCEPT !.ret = "throws"]
    ELSE [getStorageQuota_after(w)
            EXCEPT !.ret = IF getStorageQuota(used).percentUsed < 95
                           THEN "true" ELSE "false"]

\* getStats: no test of isAvailable in front of getStorageQuota, and no try
\* block around it
getStats(w, used) ==
    IF w.denied THEN [getStorageQuota_after(w) EXCEPT !.ret = "throws"]
    ELSE [loadHistory_after(getStorageQuota_after(w)) EXCEPT !.ret = "object"]

\* clearAll that removes the theme along with the draft
clearAll_removesTheme(w, rm) ==
    IF ~w.isAvailable THEN [w EXCEPT !.ret = "false"]
    ELSE LET w1 == [removeItem(w, "reportData", NoSnapshot, rm.first)
                        EXCEPT !.theme = Absent("")]
         IN  IF rm.first # "ok" THEN [w1 EXCEPT !.ret = "false"]
             ELSE [removeItem(w1, "reportHistory", <<>>, rm.second)
                     EXCEPT !.ret = IF rm.second = "ok" THEN "true" ELSE "false"]

\* clearAll: the second removeItem is not reached when the first throws
clearAll(w, rm) ==
    IF ~w.isAvailable THEN [w EXCEPT !.ret = "false"]
    ELSE LET w1 == removeItem(w, "reportData", NoSnapshot, rm.first)
         IN  IF rm.first # "ok" THEN [w1 EXCEPT !.ret = "false"]
             ELSE [removeItem(w1, "reportHistory", <<>>, rm.second)
                     EXCEPT !.ret = IF rm.second = "ok" THEN "true" ELSE "false"]

(***************************************************************************)
(* ReportManager                                                           *)
(***************************************************************************)
ReportManager_notifyListeners(w) == [w EXCEPT !.reportNotified = @ + 1]

\* { ...this.state, tasks: taskManager.getTasks() }
getState(w) == Spread(w.state, [tasks |-> getTasks(w)])

\* save under which the newest history entry is the live snapshot itself
\* and not a copy of what it was when it was appended
save_sharesFrontEntry(w, wr) ==
    LET w1 == saveReportData(w, getState(w), wr)
    IN  [(IF w1.reportHistory.kind = "value" /\ Len(w1.reportHistory.val) > 0
          THEN [w1 EXCEPT !.reportHistory.val[1].data = getState(w)]
          ELSE w1) EXCEPT !.ret = "undefined"]

save(w, wr) == [saveReportData(w, getState(w), wr) EXCEPT !.ret = "undefined"]

setState(w, updates, wr) ==
    save(ReportManager_notifyListeners([w EXCEPT !.state = Spread(@, updates)]), wr)

\* the copy of the scalar fields that forgets problems
StateFrom_noProblems(data) ==
    [workBom |-> OrElse(data, "workBom", ""),
     projectName |-> OrElse(data, "projectName", ""),
     problems |-> ""]

\* { workBom: data.workBom || '', projectName: ..., problems: ... }
StateFrom(data) ==
    [workBom |-> OrElse(data, "workBom", ""),
     projectName |-> OrElse(data, "projectName", ""),
     problems |-> OrElse(data, "problems", "")]

\* load that takes the tasks of the draft as they are, none included
load_keepsEmpty(w) ==
    LET data == loadReportData(w)
        w1 == loadReportData_after(w)
    IN  IF data.kind = "value"
        THEN LET w2 == [w1 EXCEPT !.state = StateFrom(data.val)]
                 w3 == IF Has(data.val, "tasks")
                       THEN setTasks(w2, data.val.tasks, Unshared)
                       ELSE addTask(w2, <<>>)
             IN  [ReportManager_notifyListeners(w3) EXCEPT !.ret = "true"]
        ELSE [addTask(w1, <<>>) EXCEPT !.ret = "false"]

load(w) ==
    LET data == loadReportData(w)
        w1 == loadReportData_after(w)
    IN  IF data.kind = "value"
        THEN LET w2 == [w1 EXCEPT !.state = StateFrom(data.val)]
                 w3 == IF Has(data.val, "tasks") /\ Len(data.val.tasks) > 0
                       THEN setTasks(w2, data.val.tasks, Unshared)
                       ELSE addTask(w2, <<>>)
             IN  [ReportManager_notifyListeners(w3) EXCEPT !.ret = "true"]
        ELSE [addTask(w1, <<>>) EXCEPT !.ret = "false"]

ReportManager_saveToHistory(w, wr, elapsed) ==
    StorageManager_saveToHistory(w, getState(w), wr, elapsed)

\* restoreFromHistory(historyData), historyData.tasks being shared as
\* sharing says
restoreFromHistory(w, historyData, sharing, wr) ==
    LET w1 == [w EXCEPT !.state = StateFrom(historyData)]
        w2 == IF Has(historyData, "tasks") /\ Len(historyData.tasks) > 0
              THEN setTasks(w1, historyData.tasks, sharing)
              ELSE addTask(TaskManager_clearTasks(w1), <<>>)
    IN  save(ReportManager_notifyListeners(w2), wr)

\* clearTasks that empties every scalar field, as resetAll does
clearTasks_clearsAll(w, wr) ==
    LET w1 == [w EXCEPT !.state = EmptyState]
        w2 == addTask(TaskManager_clearTasks(w1), <<>>)
    IN  save(ReportManager_notifyListeners(w2), wr)

ReportManager_clearTasks(w, wr) ==
    LET w1 == [w EXCEPT !.state.problems = ""]
        w2 == addTask(TaskManager_clearTasks(w1), <<>>)
    IN  save(ReportManager_notifyListeners(w2), wr)

\* resetAll that saves the draft before the blank task is added
resetAll_savesFirst(w, wr) ==
    LET w1 == [w EXCEPT !.state = EmptyState]
        w2 == save(ReportManager_notifyListeners(TaskManager_clearTasks(w1)), wr)
    IN  [addTask(w2, <<>>) EXCEPT !.ret = "undefined"]

resetAll(w, wr) ==
    LET w1 == [w EXCEPT !.state = EmptyState]
        w2 == addTask(TaskManager_clearTasks(w1), <<>>)
    IN  save(ReportManager_notifyListeners(w2), wr)

\* import that looks for the data member after it has set the scalar fields
import_checksLate(w, importData, sharing, wr) ==
    IF ~Has(importData, "data")
    THEN [ReportManager_notifyListeners([w EXCEPT !.state = EmptyState])
            EXCEPT !.ret = "false"]
    ELSE
        LET data == importData.data
            w1 == [w EXCEPT !.state = StateFrom(data)]
            w2 == IF Has(data, "tasks") THEN setTasks(w1, data.tasks, sharing) ELSE w1
        IN  [save(ReportManager_notifyListeners(w2), wr) EXCEPT !.ret = "true"]

\* import: an envelope without a data member throws inside the try block;
\* importData.data.tasks is shared as sharing says
import(w, importData, sharing, wr) ==
    IF ~Has(importData, "data")
    THEN [w EXCEPT !.ret = "false"]
    ELSE
        LET data == importData.data
            w1 == [w EXCEPT !.state = StateFrom(data)]
            w2 == IF Has(data, "tasks") THEN setTasks(w1, data.tasks, sharing) ELSE w1
        IN  [save(ReportManager_notifyListeners(w2), wr) EXCEPT !.ret = "true"]

(***************************************************************************)
(* generateReport.  The text is kept as the sequence of the lines that     *)
(* parts.join('\n') joins; the literal labels are written in ASCII (the    *)
(* source's carry an emoji and Thai words).  generateReport has no         *)
(* parameter: dateStr is what formatDate(new Date()) returned, from the    *)
(* clock and the time zone of the runtime at the moment of the call.       *)
(***************************************************************************)
separator == "------------------------------"

DateLine(dateStr) == "Date: " \o dateStr
BomLine(workBom) == "Work BOM : " \o workBom
ProjectLine(projectName) == "Project : " \o projectName
TasksHeading == "**Tasks**"
NoItemsLine == "- no items -"
ProblemsHeading == "**Problems**"
StatusLine(task) == "   Status: " \o task.status
RemarkLine(task) == "   Remark: " \o task.remark

\* the number printed in front of the task at zero-based index
TaskNumber(ts, index) == index + 1

NumberedLine(taskNumber, task) == ToString(taskNumber) \o ". " \o task.detail

\* the callback that leaves out an empty remark only, and prints a "-"
TaskLines_printsDash(ts, index) ==
    LET task == ts[index + 1]
    IN  IF task.detail # ""
        THEN <<NumberedLine(TaskNumber(ts, index), task), StatusLine(task)>>
             \o (IF task.remark # "" THEN <<RemarkLine(task)>> ELSE <<>>)
        ELSE <<>>

\* the lines the forEach callback pushes for the task at zero-based index
TaskLines(ts, index) ==
    LET task == ts[index + 1]
    IN  IF task.detail # ""
        THEN <<NumberedLine(TaskNumber(ts, index), task), StatusLine(task)>>
             \o (IF task.remark # "" /\ task.remark # "-"
                 THEN <<RemarkLine(task)>>
                 ELSE <<>>)
        ELSE <<>>

\* data.tasks.forEach, over the first n tasks
RECURSIVE ForEachTask(_, _)
ForEachTask(ts, n) ==
    IF n = 0 THEN <<>> ELSE ForEachTask(ts, n - 1) \o TaskLines(ts, n - 1)

TaskBlock(ts) ==
    IF Len(ts) > 0
    THEN IF \E i \in 1..Len(ts) : ts[i].detail # ""
         THEN ForEachTask(ts, Len(ts))
         ELSE <<NoItemsLine>>
    ELSE <<NoItemsLine>>

\* String.prototype.trim at the end of the text: blanks at the end of the
\* last line go, and so does a last line that is blank throughout
RECURSIVE TrimEnd(_)
TrimEnd(str) ==
    IF str # "" /\ SubSeq(str, Len(str), Len(str)) = " "
    THEN TrimEnd(SubSeq(str, 1, Len(str) - 1))
    ELSE str

RECURSIVE Trim(_)
Trim(parts) ==
    IF parts = <<>> THEN <<>>
    ELSE IF TrimEnd(parts[Len(parts)]) = ""
    THEN Trim(SubSeq(parts, 1, Len(parts) - 1))
    ELSE [parts EXCEPT ![Len(parts)] = TrimEnd(@)]

\* the days of a month of the Gregorian calendar
DaysIn(year, month) ==
    IF month = 2
    THEN (IF year % 4 = 0 /\ (year % 100 # 0 \/ year % 400 = 0) THEN 29 ELSE 28)
    ELSE IF month \in {4, 6, 9, 11} THEN 30 ELSE 31

\* the calendar date a Date, an instant kept as its UTC reading, falls on
\* in a time zone so many hours east of UTC
LocalDate(date, zone) ==
    IF date.hour + zone < 24 THEN date
    ELSE IF date.day < DaysIn(date.year, date.month)
    THEN [date EXCEPT !.day = @ + 1, !.hour = date.hour + zone - 24]
    ELSE IF date.month < 12
    THEN [date EXCEPT !.day = 1, !.month = @ + 1, !.hour = date.hour + zone - 24]
    ELSE [date EXCEPT !.day = 1, !.month = 1, !.year = @ + 1,
                      !.hour = date.hour + zone - 24]

\* formatDate(date), for the Date generateReport has just taken from the
\* clock: toLocaleDateString('th-TH', ...) renders the instant in the time
\* zone of the runtime and gives the day of the month, the month and the
\* year of the Buddhist era, and nothing of the time of day (the month, a
\* Thai name in the source, is written as its number)
formatDate(date, zone) ==
    LET local == LocalDate(date, zone)
    IN  ToString(local.day) \o "/" \o ToString(local.month) \o "/"
            \o ToString(local.year + 543)

\* generateReport: the world after the call, in which it has assigned
\* nothing, and the text it returns
generateReport_after(w) == w

generateReport(w, dateStr) ==
    LET data == getState(w)
    IN  Trim(<<DateLine(dateStr)>>
             \o (IF data.workBom # "" THEN <<BomLine(data.workBom)>> ELSE <<>>)
             \o (IF data.projectName # "" THEN <<ProjectLine(data.projectName)>> ELSE <<>>)
             \o (IF data.workBom # "" \/ data.projectName # "" THEN <<separator>> ELSE <<>>)
             \o <<TasksHeading>>
             \o TaskBlock(data.tasks)
             \o (IF data.problems # ""
                 THEN <<separator, ProblemsHeading, data.problems>>
                 ELSE <<>>))

(***************************************************************************)
(* Validation.  A string is a sequence of one-character strings; the only  *)
(* white space the inputs of the model hold is the blank.                  *)
(***************************************************************************)
Char(str, i) == SubSeq(str, i, i)

RECURSIVE TrimStart(_)
TrimStart(str) ==
    IF str # "" /\ Char(str, 1) = " " THEN TrimStart(SubSeq(str, 2, Len(str))) ELSE str

\* String.prototype.trim
StrTrim(str) == TrimStart(TrimEnd(str))

\* \d
IsDigit(c) == c \in {"0", "1", "2", "3", "4", "5", "6", "7", "8", "9"}

\* [A-Z] under the flag i
IsLetter(c) ==
    c \in {"A", "B", "C", "D", "E", "F", "G", "H", "I", "J", "K", "L", "M",
           "N", "O", "P", "Q", "R", "S", "T", "U", "V", "W", "X", "Y", "Z",
           "a", "b", "c", "d", "e", "f", "g", "h", "i", "j", "k", "l", "m",
           "n", "o", "p", "q", "r", "s", "t", "u", "v", "w", "x", "y", "z"}

\* /^WB-[A-Z]\d{4}-\d{4}-[A-Z]$/i
MatchesWorkBom(str) ==
    /\ Len(str) = 15
    /\ Char(str, 1) \in {"W", "w"}
    /\ Char(str, 2) \in {"B", "b"}
    /\ Char(str, 3) = "-"
    /\ IsLetter(Char(str, 4))
    /\ \A i \in 5..8 : IsDigit(Char(str, i))
    /\ Char(str, 9) = "-"
    /\ \A i \in 10..13 : IsDigit(Char(str, i))
    /\ Char(str, 14) = "-"
    /\ IsLetter(Char(str, 15))

validateWorkBom(value) ==
    IF value = "" \/ StrTrim(value) = "" THEN TRUE ELSE MatchesWorkBom(StrTrim(value))

validateProjectName(value) ==
    IF value = "" \/ StrTrim(value) = "" THEN TRUE
    ELSE Len(StrTrim(value)) >= 3 /\ Len(StrTrim(value)) <= 200

\* TaskManager.validate: the errors it collects, task by task
RECURSIVE TaskErrors(_, _)
TaskErrors(ts, n) ==
    IF n = 0 THEN <<>>
    ELSE LET task == ts[n]
         IN  TaskErrors(ts, n - 1)
             \o (IF task.detail # "" /\ Len(task.detail) > 500
                 THEN <<[index |-> n - 1, field |-> "detail"]>> ELSE <<>>)
             \o (IF task.remark # "" /\ Len(task.remark) > 200
                 THEN <<[index |-> n - 1, field |-> "remark"]>> ELSE <<>>)

TaskManager_validate(w) == TaskErrors(w.tasks, Len(w.tasks))

\* validate that does not ask the task list
validate_skipsTasks(w) ==
    (IF w.state.workBom # "" /\ ~validateWorkBom(w.state.workBom)
     THEN <<[field |-> "workBom"]>> ELSE <<>>)
    \o (IF w.state.projectName # "" /\ ~validateProjectName(w.state.projectName)
        THEN <<[field |-> "projectName"]>> ELSE <<>>)

\* ReportManager.validate: the errors it collects; valid is errors.length = 0
validate(w) ==
    (IF w.state.workBom # "" /\ ~validateWorkBom(w.state.workBom)
     THEN <<[field |-> "workBom"]>> ELSE <<>>)
    \o (IF w.state.projectName # "" /\ ~validateProjectName(w.state.projectName)
        THEN <<[field |-> "projectName"]>> ELSE <<>>)
    \o TaskManager_validate(w)

(***************************************************************************)
(* App: the handlers behind the page's inputs and buttons.  null is the    *)
(* literal "null" for pendingAction and an absent value for                *)
(* pendingRestoreData.                                                     *)
(***************************************************************************)
\* renderTasks: one row per task, each row carrying its index
renderTasks(w) == [w EXCEPT !.rows = Len(getTasks(w))]

loadInitialData(w) == [renderTasks(load(w)) EXCEPT !.ret = "undefined"]

\* UIManager.updateTheme and toggleTheme
updateTheme(w, th) == [w EXCEPT !.dataTheme = th]

toggleTheme(w) ==
    LET newTheme == IF w.dataTheme = "light" THEN "dark" ELSE "light"
    IN  [updateTheme(w, newTheme) EXCEPT !.ret = newTheme]

\* setupManagers: the theme getTheme returns becomes that of the page
setupManagers(w) ==
    LET w1 == getTheme(w)
    IN  updateTheme(w1, w1.ret)

\* App.init; what cacheElements and setupEventListeners do is that the
\* handlers below can run from now on
init(w) == [loadInitialData(setupManagers(w)) EXCEPT !.ret = "undefined"]

\* the 'input' listeners of workBom, projectName and problems
handleInput(w, field, value, wr) ==
    setState(w, [f \in {field} |-> value], wr)

\* handleCopy that appends to the history before it validates
handleCopy_savesFirst(w, dateStr, wr, elapsed) ==
    LET w1 == ReportManager_saveToHistory(w, wr, elapsed)
    IN  IF validate(w) # <<>>
        THEN [w1 EXCEPT !.ret = "undefined"]
        ELSE [generateReport_after(w1)
                EXCEPT !.output = generateReport(w1, dateStr),
                       !.ret = "undefined"]

\* handleCopy, up to the await: what follows it shows a toast and no more
handleCopy(w, dateStr, wr, elapsed) ==
    IF validate(w) # <<>>
    THEN [w EXCEPT !.ret = "undefined"]
    ELSE LET w1 == ReportManager_saveToHistory(w, wr, elapsed)
         IN  [generateReport_after(w1)
                EXCEPT !.output = generateReport(w1, dateStr),
                       !.ret = "undefined"]

\* the text handleCopy hands to copyToClipboard; none when it returns
\* before the call
handleCopy_clipboard(w, dateStr, wr, elapsed) ==
    IF validate(w) # <<>>
    THEN <<>>
    ELSE generateReport(ReportManager_saveToHistory(w, wr, elapsed), dateStr)

handleAddTask(w) == [renderTasks(addTask(w, <<>>)) EXCEPT !.ret = "undefined"]

\* the onUpdate callback renderTasks hands to a row, for a field the user
\* edited
handleRowUpdate(w, index, updates) ==
    [updateTask(w, index, updates) EXCEPT !.ret = "undefined"]

\* the same callback as the Enter key of a remark field calls it, with
\* 'addNew' for index and no updates: updates === 'addNew' does not hold
handleRowEnter(w) ==
    [updateTask_named(w, "addNew", <<>>) EXCEPT !.ret = "undefined"]

handleTaskAction(w, button, index) ==
    LET w1 == IF button = "remove-task-button" THEN removeTask(w, index)
              ELSE IF button = "move-up-btn" THEN moveTaskUp(w, index)
              ELSE moveTaskDown(w, index)
    IN  [renderTasks(w1) EXCEPT !.ret = "undefined"]

handleClearTasks(w) == [w EXCEPT !.pendingAction = "clearTasks"]

handleResetAll(w) == [w EXCEPT !.pendingAction = "resetAll"]

handleThemeToggle(w, outcome) ==
    LET w1 == toggleTheme(w)
    IN  [saveTheme(w1, w1.ret, outcome) EXCEPT !.ret = "undefined"]

\* showModal and hideModal, for the history modal
showHistoryModal(w) == [w EXCEPT !.historyShown = TRUE]

hideHistoryModal(w) == [w EXCEPT !.historyShown = FALSE]

\* renderHistory empties the list of the page and fills it with the items
\* given: objects JSON.parse has just built from the stored text, which
\* nothing else holds yet.  The items the page held are gone from it;
\* pendingRestoreData and the task list keep the objects they have
renderHistory(w, history) ==
    [w EXCEPT !.historyList = history, !.pendingItem = 0, !.aliased = 0]

handleShowHistory(w) ==
    IF loadHistory_isArray(w)
    THEN showHistoryModal(renderHistory(loadHistory_after(w), loadHistory(w)))
    ELSE IF /\ w.reportHistory.kind = "arraylike"
            /\ w.reportHistory.length = 0
            /\ ~w.reportHistory.quoted
    THEN \* history.length === 0: renderHistory writes that there is no
         \* history and returns
         showHistoryModal(renderHistory(loadHistory_after(w), <<>>))
    ELSE \* renderHistory empties the list and throws at history.forEach
         renderHistory(loadHistory_after(w), <<>>)

\* the onSelect callback renderHistory hands to the item at position i of
\* the list: pendingRestoreData is the data object of that item
handleSelectHistory(w, i) ==
    LET item == w.historyList[i]
    IN  [w EXCEPT !.pendingRestoreData = Stored(item.data),
                  !.pendingItem = i,
                  !.pendingAliased = (w.aliased = i),
                  !.pendingAction = "restoreHistory"]

handleCancelModal(w) ==
    [w EXCEPT !.pendingAction = "null",
              !.pendingRestoreData = Absent(NoSnapshot),
              !.pendingItem = 0,
              !.pendingAliased = FALSE]

\* restoreFromHistory(this.pendingRestoreData): the tasks array handed on
\* to setTasks is that of pendingRestoreData, and of the selected item as
\* long as the page holds it
restoreFromPending(w, wr) ==
    restoreFromHistory(w, w.pendingRestoreData.val,
                       [item |-> w.pendingItem, pending |-> TRUE], wr)

handleCloseHistory(w) == hideHistoryModal(w)

handleConfirm(w, wr) ==
    LET w1 == IF w.pendingAction = "resetAll"
              THEN [resetAll(w, wr) EXCEPT !.output = <<>>]
              ELSE IF w.pendingAction = "clearTasks"
              THEN [ReportManager_clearTasks(w, wr) EXCEPT !.output = <<>>]
              ELSE IF w.pendingAction = "restoreHistory"
                      /\ w.pendingRestoreData.kind = "value"
              THEN hideHistoryModal(restoreFromPending(w, wr))
              ELSE w
    IN  [w1 EXCEPT !.pendingAction = "null",
                   !.pendingRestoreData = Absent(NoSnapshot),
                   !.pendingItem = 0,
                   !.pendingAliased = FALSE,
                   !.ret = "undefined"]

(***************************************************************************)
(* The bare task list: a TaskManager driven directly, from construction.   *)
(***************************************************************************)
\* the task objects handed to addTask and the updates handed to updateTask
TaskInputs ==
    { <<>>, [detail |-> "b", status |-> "NG", remark |-> "r"] }

TaskUpdates == { [detail |-> "a"] }

\* indices a caller may pass: in range, and out of range on both sides
Indices(w) == -1..(Len(w.tasks) + 1)

\* what the probe of the constructor may meet
Probes == {"ok", "QuotaExceededError", "SecurityError"}

\* the storage manager before its constructor has run
Unbuilt == [isAvailable |-> FALSE, ret |-> "undefined", access |-> NoAccess]

\* the storage manager as its constructor leaves it
Constructed(probe) ==
    LET w == StorageManager_constructor(Unbuilt, probe)
    IN  /\ isAvailable = w.isAvailable
        /\ access = w.access
        /\ denied = (probe = "SecurityError")

\* what construction leaves in the App, and nothing done yet
InitRest ==
    /\ pendingAction = "null"
    /\ pendingRestoreData = Absent(NoSnapshot)
    /\ output = <<>>
    /\ rows = 0
    /\ historyList = <<>>
    /\ historyShown = FALSE
    /\ dataTheme = "null"
    /\ pendingItem = 0
    /\ pendingAliased = FALSE
    /\ aliased = 0
    /\ ret = "undefined"
    /\ taskNotified = 0
    /\ reportNotified = 0
    /\ clock = 0
    /\ time = 0
    /\ last = Op("constructor", 0)
    /\ adds = 0
    /\ removes = 0
    /\ assigns = 0
    /\ steps = 0

\* the constructors of ReportManager and TaskManager
InitCommon ==
    /\ state = EmptyState
    /\ tasks = <<>>
    /\ InitRest

\* the task list alone: no storage manager is constructed, and none used
InitTasks ==
    /\ InitCommon
    /\ reportData = Absent(NoSnapshot)
    /\ reportHistory = Absent(<<>>)
    /\ theme = Absent("")
    /\ isAvailable = TRUE
    /\ access = NoAccess
    /\ denied = FALSE

TaskAdd ==
    /\ adds < MaxAdds
    /\ Len(tasks) < MaxAdds
    /\ \E task \in TaskInputs :
        /\ Becomes(addTask(Begin, task))
        /\ last' = Op("addTask", 0)
    /\ adds' = adds + 1
    /\ UNCHANGED <<removes, assigns, steps>>

TaskUpdate ==
    /\ \E index \in Indices(W), updates \in TaskUpdates :
        /\ Becomes(updateTask(Begin, index, updates))
        /\ last' = [op |-> "updateTask", index |-> index, updates |-> updates]
    /\ UNCHANGED <<adds, removes, assigns, steps>>

TaskRemove ==
    /\ \E index \in Indices(W) :
        /\ Becomes(removeTask(Begin, index))
        /\ last' = Op("removeTask", index)
        /\ removes' = removes + (IF removeTask(Begin, index).ret = "true" THEN 1 ELSE 0)
    /\ UNCHANGED <<adds, assigns, steps>>

TaskMoveUp ==
    /\ \E index \in Indices(W) :
        /\ Becomes(moveTaskUp(Begin, index))
        /\ last' = Op("moveTaskUp", index)
    /\ UNCHANGED <<adds, removes, assigns, steps>>

TaskMoveDown ==
    /\ \E index \in Indices(W) :
        /\ Becomes(moveTaskDown(Begin, index))
        /\ last' = Op("moveTaskDown", index)
    /\ UNCHANGED <<adds, removes, assigns, steps>>

\* the lists handed to setTasks, and undefined; the texts handed to
\* fromJSON: what toJSON gives, the text of a list, of an object that is no
\* array, and a text that does not parse
TaskLists == { <<>>, <<BlankTask, Task("b", "NG", "r")>> }

TaskSetTasks ==
    /\ assigns < MaxAssigns
    /\ assigns' = assigns + 1
    /\ \E arg \in {Absent(<<>>)} \cup {Stored(ts) : ts \in TaskLists} :
        \* tasks || []
        /\ Becomes(setTasks(Begin, IF arg.kind = "value" THEN arg.val ELSE <<>>,
                             Unshared))
        /\ last' = [op |-> "setTasks", index |-> 0, arg |-> arg]
    /\ UNCHANGED <<adds, removes, steps>>

TaskClearTasks ==
    /\ assigns < MaxAssigns
    /\ assigns' = assigns + 1
    /\ Becomes(TaskManager_clearTasks(Begin))
    /\ last' = Op("clearTasks", 0)
    /\ UNCHANGED <<adds, removes, steps>>

TaskFromJSON ==
    /\ assigns < MaxAssigns
    /\ assigns' = assigns + 1
    /\ \E json \in {toJSON(Begin), NotArray(<<>>), Corrupt(<<>>)}
                    \cup {Stored(ts) : ts \in TaskLists} :
        /\ Becomes(fromJSON(Begin, json))
        /\ last' = [op |-> "fromJSON", index |-> 0, arg |-> json]
    /\ UNCHANGED <<adds, removes, steps>>

NextTasks ==
    \/ TaskAdd
    \/ TaskUpdate
    \/ TaskRemove
    \/ TaskMoveUp
    \/ TaskMoveDown
    \/ TaskSetTasks
    \/ TaskClearTasks
    \/ TaskFromJSON

SpecTasks == InitTasks /\ [][NextTasks]_vars

(***************************************************************************)
(* The persistence layer: a StorageManager driven directly, over the       *)
(* history an earlier session left in localStorage.                        *)
(***************************************************************************)
BomOnly == [workBom |-> "WB-S2407-0105-A", projectName |-> "", problems |-> ""]

\* the snapshots handed to the persistence layer
BlankSnapshot == Snapshot(EmptyState, <<BlankTask>>)
SecondTaskSnapshot == Snapshot(EmptyState, <<BlankTask, Task("a", "NG", "r")>>)
BomSnapshot == Snapshot(BomOnly, <<>>)
TaskSnapshot == Snapshot(EmptyState, <<Task("a", "OK", "")>>)

SnapshotInputs ==
    {NoSnapshot, BlankSnapshot, SecondTaskSnapshot, BomSnapshot, TaskSnapshot}

\* whole seconds the clock may have advanced by since its last reading: the
\* seconds are counted from the first reading of the session
Elapsed(w) == IF w.clock = 0 THEN {0} ELSE {0, 1}

\* the outcomes of the setItem calls of one operation
Writes ==
    { [main |-> "ok", evict |-> "ok"],
      [main |-> "Error", evict |-> "ok"],
      [main |-> "QuotaExceededError", evict |-> "ok"],
      [main |-> "QuotaExceededError", evict |-> "QuotaExceededError"] }

\* the k-th newest entry an earlier session stored, read k ticks before
\* this session's clock started
PastEntry(k) ==
    [timestamp |-> 0 - k,
     data |-> IF k % 2 = 0 THEN BomSnapshot ELSE TaskSnapshot]

PastHistory(n) ==
    IF n = 0 THEN Absent(<<>>) ELSE Stored([k \in 1..n |-> PastEntry(k)])

\* lengths around the eviction threshold, its double, and the cap
PastLengths ==
    {0, QUOTA_MIN_HISTORY - 1, QUOTA_MIN_HISTORY, QUOTA_MIN_HISTORY + 1,
     2 * QUOTA_MIN_HISTORY, 2 * QUOTA_MIN_HISTORY + 1,
     MAX_HISTORY_ITEMS - 1, MAX_HISTORY_ITEMS}

\* what the three keys may hold when the page is opened: nothing but a
\* history of one of these lengths, or a theme next to a draft and a history
\* that earlier sessions, or other hands, have left
PastDrafts ==
    {Absent(NoSnapshot), Corrupt(NoSnapshot), Stored(<<>>), Stored(TaskSnapshot)}

\* objects that are no arrays and have a member length: at the eviction
\* threshold, above it, and above it as a decimal text
ArrayLikes ==
    {ArrayLike(<<>>, QUOTA_MIN_HISTORY, FALSE),
     ArrayLike(<<>>, 2 * QUOTA_MIN_HISTORY, FALSE),
     ArrayLike(<<>>, 2 * QUOTA_MIN_HISTORY - 1, TRUE)}

StorageSituations ==
    {[reportData |-> Absent(NoSnapshot), reportHistory |-> PastHistory(n),
      theme |-> Absent("")] : n \in PastLengths}
    \cup {[reportData |-> Absent(NoSnapshot), reportHistory |-> found,
           theme |-> Absent("")] : found \in ArrayLikes}
    \cup [reportData : PastDrafts,
          reportHistory : {Corrupt(<<>>), NotArray(<<>>), PastHistory(QUOTA_MIN_HISTORY + 1)},
          theme : {Stored("dark")}]

InitStorage ==
    /\ InitCommon
    /\ \E probe \in Probes : Constructed(probe)
    /\ \E found \in StorageSituations :
        /\ reportData = found.reportData
        /\ reportHistory = found.reportHistory
        /\ theme = found.theme

StorageOp(name, data, wr) == [op |-> name, index |-> 0, data |-> data, wr |-> wr]

\* the draft handed to saveReportData, which does not look into it
DraftInputs == {TaskSnapshot}

StorageSaveReportData ==
    /\ \E data \in DraftInputs, wr \in Writes :
        /\ Becomes(saveReportData(Begin, data, wr))
        /\ last' = StorageOp("saveReportData", data, wr)
    /\ UNCHANGED <<adds, removes, assigns, steps>>

StorageSaveToHistory ==
    /\ clock < MaxClock
    /\ \E data \in SnapshotInputs, wr \in Writes, elapsed \in Elapsed(W) :
        /\ Becomes(StorageManager_saveToHistory(Begin, data, wr, elapsed))
        /\ last' = StorageOp("saveToHistory", data, wr)
    /\ UNCHANGED <<adds, removes, assigns, steps>>

\* the literal of what loadReportData and loadHistory return
DraftLiteral(w) == IF loadReportData(w).kind = "value" THEN "{...}" ELSE "null"

HistoryLiteral(w) ==
    IF ~loadHistory_isArray(w)
    THEN IF w.reportHistory.kind = "arraylike" THEN "{length}" ELSE "{}"
    ELSE IF loadHistory(w) = <<>> THEN "[]"
    ELSE "[...]"

StorageLoadReportData ==
    /\ Becomes([loadReportData_after(Begin) EXCEPT !.ret = DraftLiteral(Begin)])
    /\ last' = Op("loadReportData", 0)
    /\ UNCHANGED <<adds, removes, assigns, steps>>

StorageLoadHistory ==
    /\ Becomes([loadHistory_after(Begin) EXCEPT !.ret = HistoryLiteral(Begin)])
    /\ last' = Op("loadHistory", 0)
    /\ UNCHANGED <<adds, removes, assigns, steps>>

\* the outcomes of the removeItem calls of one operation
Removes ==
    { [first |-> "ok", second |-> "ok"],
      [first |-> "ok", second |-> "Error"],
      [first |-> "Error", second |-> "ok"] }

\* bytes in use: none, the two values about the 95 percent of hasSpace, and
\* one whose percentage is a half that the doubles round down, to 57
UsedBytes == {0, 3014656, 4954521, 4954522}

StorageClearHistory ==
    /\ \E rm \in Removes :
        /\ Becomes(clearHistory(Begin, rm.first))
        /\ last' = [op |-> "clearHistory", index |-> 0, rm |-> rm.first]
    /\ UNCHANGED <<adds, removes, assigns, steps>>

StorageGetTheme ==
    /\ Becomes(getTheme(Begin))
    /\ last' = Op("getTheme", 0)
    /\ UNCHANGED <<adds, removes, assigns, steps>>

StorageSaveTheme ==
    /\ \E th \in {"light", "dark"}, outcome \in {"ok", "QuotaExceededError"} :
        /\ Becomes(saveTheme(Begin, th, outcome))
        /\ last' = [op |-> "saveTheme", index |-> 0, theme |-> th]
    /\ UNCHANGED <<adds, removes, assigns, steps>>

StorageHasSpace ==
    /\ \E used \in UsedBytes :
        /\ Becomes(hasSpace(Begin, used))
        /\ last' = [op |-> "hasSpace", index |-> 0, used |-> used]
    /\ UNCHANGED <<adds, removes, assigns, steps>>

StorageGetStats ==
    /\ \E used \in UsedBytes :
        /\ Becomes(getStats(Begin, used))
        /\ last' = [op |-> "getStats", index |-> 0, used |-> used]
    /\ UNCHANGED <<adds, removes, assigns, steps>>

StorageClearAll ==
    /\ \E rm \in Removes :
        /\ Becomes(clearAll(Begin, rm))
        /\ last' = [op |-> "clearAll", index |-> 0, rm |-> rm]
    /\ UNCHANGED <<adds, removes, assigns, steps>>

NextStorage ==
    \/ StorageSaveReportData
    \/ StorageSaveToHistory
    \/ StorageLoadReportData
    \/ StorageLoadHistory
    \/ StorageClearHistory
    \/ StorageGetTheme
    \/ StorageSaveTheme
    \/ StorageHasSpace
    \/ StorageGetStats
    \/ StorageClearAll

SpecStorage == InitStorage /\ [][NextStorage]_vars

(***************************************************************************)
(* Report generation: generateReport applied to the live states a user can *)
(* have typed in.                                                          *)
(***************************************************************************)
RECURSIVE SeqsUpTo(_, _)
SeqsUpTo(S, n) ==
    IF n = 0 THEN {<<>>}
    ELSE LET shorter == SeqsUpTo(S, n - 1)
         IN  shorter \cup {Append(q, x) : q \in {r \in shorter : Len(r) = n - 1}, x \in S}

ReportTasks ==
    {Task(d, "OK", r) : d \in {"", "a"}, r \in {"", "-", "r "}} \cup {Task("b", "NG", "")}

ReportStates ==
    [workBom : {"", "WB-S2407-0105-A"}, projectName : {"", "Line 4"}, problems : {"", "late", " "}]

\* instants, as their UTC readings: a morning and an evening of one day
Dates ==
    { [year |-> 2026, month |-> 10, day |-> 29, hour |-> 9],
      [year |-> 2026, month |-> 10, day |-> 29, hour |-> 17] }

\* time zones a runtime can be set to, in hours east of UTC: UTC and
\* Asia/Bangkok
Zones == {0, 7}

InitGenerate ==
    /\ InitRest
    /\ state \in ReportStates
    /\ tasks \in SeqsUpTo(ReportTasks, MaxReportTasks)
    /\ reportData = Absent(NoSnapshot)
    /\ reportHistory = Absent(<<>>)
    /\ theme = Absent("")
    /\ Constructed("ok")

\* reportManager.generateReport(supplied): the caller hands over a
\* reference timestamp, which the method, declared without a parameter,
\* does not look at; the method reads the clock, which says now, in a
\* runtime of the time zone zone
Generate ==
    /\ \E supplied \in Dates, now \in Dates, zone \in Zones :
        /\ Becomes([generateReport_after(Begin)
                        EXCEPT !.output = generateReport(Begin, formatDate(now, zone)),
                               !.ret = "text"])
        /\ last' = [op |-> "generateReport", index |-> 0,
                    dateStr |-> formatDate(now, zone), supplied |-> supplied,
                    now |-> now, zone |-> zone]
    /\ UNCHANGED <<adds, removes, assigns, steps>>

NextGenerate == Generate

SpecGenerate == InitGenerate /\ [][NextGenerate]_vars

(***************************************************************************)
(* The report state: a ReportManager and its TaskManager driven directly,  *)
(* over the draft an earlier session may have left in localStorage.        *)
(***************************************************************************)
SetStateInputs ==
    { [workBom |-> "WB-S2407-0105-A"], [workBom |-> ""],
      [projectName |-> "Line 4"], [problems |-> "late"] }

\* the snapshots handed to restoreFromHistory, and the envelopes handed to
\* import: with and without tasks, with and without members
RestoreInputs == {BomSnapshot, TaskSnapshot, [projectName |-> "Line 4"]}

ImportInputs == {<<>>} \cup {[data |-> d] : d \in RestoreInputs}

\* the outcomes of the draft write of one operation: stored, or thrown
ReportWrites == {wr \in Writes : wr.main \in {"ok", "Error"}}

\* the drafts the page may find when it is opened: none, one with a task,
\* one with scalar fields and an empty task list, one with neither tasks
\* nor every scalar field, and a text that does not parse
StartupDrafts ==
    {Absent(NoSnapshot), Stored(TaskSnapshot), Stored(BomSnapshot),
     Stored([projectName |-> "Line 4"]), Corrupt(NoSnapshot)}

InitReport ==
    /\ InitCommon
    /\ \E probe \in Probes : Constructed(probe)
    /\ reportData \in StartupDrafts
    /\ reportHistory = Absent(<<>>)
    /\ theme = Absent("")

ReportSetState ==
    /\ \E updates \in SetStateInputs, wr \in ReportWrites :
        /\ Becomes(setState(Begin, updates, wr))
        /\ last' = Op("setState", 0)
    /\ UNCHANGED <<adds, removes, assigns, steps>>

ReportLoad ==
    /\ Len(tasks) < MaxTasks
    /\ Becomes(load(Begin))
    /\ last' = Op("load", 0)
    /\ UNCHANGED <<adds, removes, assigns, steps>>

ReportAddTask ==
    /\ Len(tasks) < MaxTasks
    /\ Becomes(addTask(Begin, <<>>))
    /\ last' = Op("addTask", 0)
    /\ UNCHANGED <<adds, removes, assigns, steps>>

ReportUpdateTask ==
    /\ \E index \in 0..Len(tasks) :
        /\ Becomes(updateTask(Begin, index, [detail |-> "a"]))
        /\ last' = Op("updateTask", index)
    /\ UNCHANGED <<adds, removes, assigns, steps>>

ReportRemoveTask ==
    /\ \E index \in 0..Len(tasks) :
        /\ Becomes(removeTask(Begin, index))
        /\ last' = Op("removeTask", index)
    /\ UNCHANGED <<adds, removes, assigns, steps>>

ReportMoveTaskUp ==
    /\ \E index \in 0..Len(tasks) :
        /\ Becomes(moveTaskUp(Begin, index))
        /\ last' = Op("moveTaskUp", index)
    /\ UNCHANGED <<adds, removes, assigns, steps>>

ReportRestore ==
    /\ \E historyData \in RestoreInputs, wr \in ReportWrites :
        /\ Becomes(restoreFromHistory(Begin, historyData, Unshared, wr))
        /\ last' = [op |-> "restoreFromHistory", index |-> 0, data |-> historyData]
    /\ UNCHANGED <<adds, removes, assigns, steps>>

\* restoreFromHistory(getState())
ReportRoundTrip ==
    /\ \E wr \in ReportWrites :
        /\ Becomes(restoreFromHistory(Begin, getState(Begin), ListSharing(Begin), wr))
        /\ last' = Op("restoreFromHistory(getState())", 0)
    /\ UNCHANGED <<adds, removes, assigns, steps>>

ReportClearTasks ==
    /\ \E wr \in ReportWrites :
        /\ Becomes(ReportManager_clearTasks(Begin, wr))
        /\ last' = Op("clearTasks", 0)
    /\ UNCHANGED <<adds, removes, assigns, steps>>

ReportResetAll ==
    /\ \E wr \in ReportWrites :
        /\ Becomes(resetAll(Begin, wr))
        /\ last' = Op("resetAll", 0)
    /\ UNCHANGED <<adds, removes, assigns, steps>>

ReportImport ==
    /\ \E importData \in ImportInputs, wr \in ReportWrites :
        /\ Becomes(import(Begin, importData, Unshared, wr))
        /\ last' = [op |-> "import", index |-> 0, data |-> importData]
    /\ UNCHANGED <<adds, removes, assigns, steps>>

NextReport ==
    \/ ReportSetState
    \/ ReportLoad
    \/ ReportAddTask
    \/ ReportUpdateTask
    \/ ReportRemoveTask
    \/ ReportMoveTaskUp
    \/ ReportRestore
    \/ ReportRoundTrip
    \/ ReportClearTasks
    \/ ReportResetAll
    \/ ReportImport

SpecReport == InitReport /\ [][NextReport]_vars

(***************************************************************************)
(* The application: the App constructed over what an earlier session left  *)
(* in localStorage, initialised, and then driven by the user.              *)
(***************************************************************************)
\* a first visit finds localStorage empty; a later one finds the draft,
\* the history and the theme of the visits before
Init ==
    /\ InitCommon
    /\ \E probe \in Probes : Constructed(probe)
    /\ \/ /\ reportData = Absent(NoSnapshot)
          /\ reportHistory = PastHistory(0)
          /\ theme = Absent("")
       \/ /\ reportData = Stored(TaskSnapshot)
          /\ reportHistory = PastHistory(2)
          /\ theme = Stored("dark")

Ready == last.op # "constructor"

\* the page is up and the session has events left
Handling == Ready /\ steps < MaxSteps

\* history appends a session makes through the copy button
MaxCopies == MaxClock - 1

AppDates == {"29/10/2569"}

AppInit ==
    /\ ~Ready
    /\ Becomes(init(Begin))
    /\ last' = Op("init", 0)
    /\ UNCHANGED <<adds, removes, assigns, steps>>

InputWorkBom ==
    /\ Handling
    /\ \E value \in {"", "WB-S2407-0105-A"}, wr \in ReportWrites :
        /\ Becomes(handleInput(Begin, "workBom", value, wr))
        /\ last' = Op("input workBom", 0)
    /\ steps' = steps + 1
    /\ UNCHANGED <<adds, removes, assigns>>

\* the copy button; the report carries the date of the day
ClickCopy ==
    /\ Handling
    /\ clock < MaxCopies
    /\ \E dateStr \in AppDates, wr \in ReportWrites, elapsed \in Elapsed(W) :
        /\ Becomes(handleCopy(Begin, dateStr, wr, elapsed))
        /\ last' = Op("handleCopy", 0)
    /\ steps' = steps + 1
    /\ UNCHANGED <<adds, removes, assigns>>

ClickAddTask ==
    /\ Handling
    /\ Len(tasks) < MaxTasks
    /\ Becomes(handleAddTask(Begin))
    /\ last' = Op("handleAddTask", 0)
    /\ steps' = steps + 1
    /\ UNCHANGED <<adds, removes, assigns>>

\* the user edits the detail of a row of the page
InputTaskDetail ==
    /\ Handling
    /\ \E index \in 0..(rows - 1), value \in {"a"} :
        /\ Becomes(handleRowUpdate(Begin, index, [detail |-> value]))
        /\ last' = Op("input task-detail", index)
    /\ steps' = steps + 1
    /\ UNCHANGED <<adds, removes, assigns>>

\* the user presses Enter in the remark of a row of the page
KeyEnterRemark ==
    /\ Handling
    /\ \E index \in 0..(rows - 1) :
        /\ Becomes(handleRowEnter(Begin))
        /\ last' = Op("keydown Enter task-remark", index)
    /\ steps' = steps + 1
    /\ UNCHANGED <<adds, removes, assigns>>

\* the buttons of a row: move-up is disabled on the first row, move-down
\* on the last
ClickTaskAction ==
    /\ Handling
    /\ \E button \in {"remove-task-button", "move-up-btn", "move-down-btn"},
          index \in 0..(rows - 1) :
        /\ button = "move-up-btn" => index # 0
        /\ button = "move-down-btn" => index # rows - 1
        /\ Becomes(handleTaskAction(Begin, button, index))
        /\ last' = Op(button, index)
    /\ steps' = steps + 1
    /\ UNCHANGED <<adds, removes, assigns>>

ClickClearTasks ==
    /\ Handling
    /\ Becomes(handleClearTasks(Begin))
    /\ last' = Op("handleClearTasks", 0)
    /\ steps' = steps + 1
    /\ UNCHANGED <<adds, removes, assigns>>

ClickResetAll ==
    /\ Handling
    /\ Becomes(handleResetAll(Begin))
    /\ last' = Op("handleResetAll", 0)
    /\ steps' = steps + 1
    /\ UNCHANGED <<adds, removes, assigns>>

ClickThemeToggle ==
    /\ Handling
    /\ \E outcome \in {"ok", "QuotaExceededError"} :
        /\ Becomes(handleThemeToggle(Begin, outcome))
        /\ last' = Op("handleThemeToggle", 0)
    /\ steps' = steps + 1
    /\ UNCHANGED <<adds, removes, assigns>>

ClickHistory ==
    /\ Handling
    /\ Becomes(handleShowHistory(Begin))
    /\ last' = Op("handleShowHistory", 0)
    /\ steps' = steps + 1
    /\ UNCHANGED <<adds, removes, assigns>>

\* the user clicks an item of the history list, or presses Enter on it:
\* the listeners of an item do not ask whether the modal is shown
ClickHistoryItem ==
    /\ Handling
    /\ \E i \in 1..Len(historyList) :
        /\ Becomes(handleSelectHistory(Begin, i))
        /\ last' = Op("select history item", i - 1)
    /\ steps' = steps + 1
    /\ UNCHANGED <<adds, removes, assigns>>

ClickConfirm ==
    /\ Handling
    /\ \E wr \in ReportWrites :
        /\ Becomes(handleConfirm(Begin, wr))
        /\ last' = [op |-> "handleConfirm", index |-> 0, action |-> pendingAction]
    /\ steps' = steps + 1
    /\ UNCHANGED <<adds, removes, assigns>>

ClickCancel ==
    /\ Handling
    /\ Becomes(handleCancelModal(Begin))
    /\ last' = Op("handleCancelModal", 0)
    /\ steps' = steps + 1
    /\ UNCHANGED <<adds, removes, assigns>>

ClickCloseHistory ==
    /\ Handling
    /\ Becomes(handleCloseHistory(Begin))
    /\ last' = Op("handleCloseHistory", 0)
    /\ steps' = steps + 1
    /\ UNCHANGED <<adds, removes, assigns>>

Next ==
    \/ AppInit
    \/ InputWorkBom
    \/ ClickCopy
    \/ ClickAddTask
    \/ InputTaskDetail
    \/ KeyEnterRemark
    \/ ClickTaskAction
    \/ ClickClearTasks
    \/ ClickResetAll
    \/ ClickThemeToggle
    \/ ClickHistory
    \/ ClickHistoryItem
    \/ ClickConfirm
    \/ ClickCancel
    \/ ClickCloseHistory

Spec == Init /\ [][Next]_vars

(***************************************************************************)
(* The copy button: a page opened over the draft of an earlier visit,      *)
(* which holds what a user can have typed, valid or not, and over the      *)
(* history of earlier sessions; once App.init has loaded the draft, the    *)
(* user asks for the validation, edits the Work BOM and clicks copy.       *)
(***************************************************************************)
\* the string of n characters c
RECURSIVE Repeat(_, _)
Repeat(c, n) ==
    IF n = 0 THEN ""
    ELSE LET half == Repeat(c, n \div 2)
         IN  IF n % 2 = 0 THEN half \o half ELSE half \o half \o c

\* what the form may hold: well-formed, malformed, blank, and the lengths
\* about the limits of validateProjectName
CopyStates ==
    [workBom : {"", "WB-S2407-0105-A", "WB-24-0105-A", "wb-s2407-0105-a", " ",
                " WB-S2407-0105-A"},
     projectName : {"", "ab", "abc", " ab ", "  ", Repeat("p", 200), Repeat("p", 201)},
     problems : {""}]

\* what the rows may hold: the lengths about the limits of
\* TaskManager.validate
CopyTasks ==
    { <<>>,
      <<BlankTask>>,
      <<Task("a", "OK", "")>>,
      <<BlankTask, Task(Repeat("d", 501), "OK", "")>>,
      <<Task(Repeat("d", 500), "NG", Repeat("r", 201)), Task("a", "OK", "")>>,
      <<Task("a", "OK", Repeat("r", 200)), Task(Repeat("d", 501), "NG", Repeat("r", 201))>> }

\* the drafts an earlier visit may have left: setState stores what the
\* form holds, whatever it is
CopyDrafts == {Stored(Snapshot(st, ts)) : st \in CopyStates, ts \in CopyTasks}

\* the App constructed over such a draft; a browser that fails the probe
\* shows the page no item
InitCopy ==
    /\ InitCommon
    /\ \E probe \in Probes : Constructed(probe)
    /\ reportData \in (IF isAvailable THEN CopyDrafts ELSE {Absent(NoSnapshot)})
    /\ reportHistory \in {Absent(<<>>), NotArray(<<>>), PastHistory(MAX_HISTORY_ITEMS)}
    /\ theme = Absent("")

\* App.init: the form and the rows take what the draft holds
CopyInit ==
    /\ ~Ready
    /\ Becomes(init(Begin))
    /\ last' = Op("init", 0)
    /\ UNCHANGED <<adds, removes, assigns, steps>>

\* reportManager.validate(), as handleCopy calls it
CopyValidate ==
    /\ Ready
    /\ Becomes([Begin EXCEPT !.ret = IF validate(Begin) = <<>>
                                     THEN "{valid: true}" ELSE "{valid: false}"])
    /\ last' = [op |-> "validate", index |-> 0, errors |-> validate(Begin)]
    /\ UNCHANGED <<adds, removes, assigns, steps>>

\* the user retypes the Work BOM, well-formed or not
CopyInputWorkBom ==
    /\ Ready
    /\ \E value \in {"WB-24-0105-A", "WB-S2407-0105-A"}, wr \in ReportWrites :
        /\ Becomes(handleInput(Begin, "workBom", value, wr))
        /\ last' = Op("input workBom", 0)
    /\ UNCHANGED <<adds, removes, assigns, steps>>

CopyClick ==
    /\ Ready
    /\ clock < MaxClock
    /\ \E dateStr \in AppDates, wr \in Writes, elapsed \in Elapsed(W) :
        /\ Becomes(handleCopy(Begin, dateStr, wr, elapsed))
        /\ last' = [op |-> "handleCopy", index |-> 0, dateStr |-> dateStr,
                    wr |-> wr,
                    copied |-> handleCopy_clipboard(Begin, dateStr, wr, elapsed)]
    /\ UNCHANGED <<adds, removes, assigns, steps>>

NextCopy ==
    \/ CopyInit
    \/ CopyValidate
    \/ CopyInputWorkBom
    \/ CopyClick

SpecCopy == InitCopy /\ [][NextCopy]_vars

(***************************************************************************)
(* Claims about the bare task list (SpecTasks).                            *)
(***************************************************************************)
\* C8: after any sequence of add, remove, moveUp and moveDown calls on an
\* initially empty list, the length of the list is the number of addTask
\* calls minus the number of removeTask calls that removed a record; moves
\* and failed removes leave the length alone.
\* The list starts empty with both counts at 0.  setTasks, clearTasks and
\* fromJSON put another list in place and are none of the operations the
\* claim is about: the equation is that of the states no such call has led
\* to, and every add, remove and move, before such a call or after it,
\* changes the length by what it adds to the count of addTask calls less
\* what it adds to the count of removals.
C8_LengthIsAddsMinusRemoves ==
    /\ [](assigns = 0 => Len(tasks) = adds - removes)
    /\ [][last'.op \in {"addTask", "removeTask", "moveTaskUp", "moveTaskDown"} =>
        /\ Len(tasks') - Len(tasks) = (adds' - adds) - (removes' - removes)
        /\ adds' - adds = (IF last'.op = "addTask" THEN 1 ELSE 0)
        /\ removes' - removes =
            (IF /\ last'.op = "removeTask"
                /\ last'.index \in 0..(Len(tasks) - 1)
             THEN 1 ELSE 0)]_vars

\* a record was removed, a later remove failed out of range, tasks remain
C8_Witness ==
    /\ assigns = 0
    /\ adds = MaxAdds
    /\ removes >= 1
    /\ Len(tasks) >= 1
    /\ last.op = "removeTask"
    /\ ret = "false"

\* the move that ran last was handed a boundary or out-of-range index for
\* the list of length n it ran on
BoundaryMove(l, n) ==
    \/ l.op = "moveTaskUp" /\ (l.index <= 0 \/ l.index >= n)
    \/ l.op = "moveTaskDown" /\ (l.index < 0 \/ l.index >= n - 1)

\* C9: moveTaskUp(index) with index <= 0, moveTaskDown(index) with
\* index >= length-1, and either with an index outside [0, length), return
\* false, leave the task list as it was and notify no subscriber.
C9_BoundaryMoveIsNoOp ==
    [][BoundaryMove(last', Len(tasks)) =>
        /\ tasks' = tasks
        /\ ret' = "false"
        /\ taskNotified' = 0
        /\ reportNotified' = 0]_vars

\* moveTaskDown on the last record of a list of two or more was refused
C9_Witness ==
    /\ Len(tasks) >= 2
    /\ last.op = "moveTaskDown"
    /\ last.index = Len(tasks) - 1
    /\ ret = "false"
    /\ tasks[1] # tasks[2]

(***************************************************************************)
(* Claims about the persistence layer (SpecStorage).  Each is about the    *)
(* step an operation takes: last' names the operation and its inputs, the  *)
(* unprimed variables are the storage it found.                            *)
(***************************************************************************)
Min(a, b) == IF a <= b THEN a ELSE b

\* the step was a draft save or a history append whose setItem call threw
\* QuotaExceededError
QuotaFailed(l, acc) ==
    /\ l.op \in {"saveReportData", "saveToHistory"}
    /\ acc.setItem >= 1
    /\ l.wr.main = "QuotaExceededError"

\* what data the operation l left stored, if it stored any
DataStored(l, draft, history) ==
    IF l.op = "saveReportData"
    THEN draft = Stored(l.data)
    ELSE /\ history.kind = "value"
         /\ Len(history.val) >= 1
         /\ history.val[1].data = l.data

\* C3: when a draft save or a history append fails with quota-exceeded and
\* the stored history has more than 5 entries, the recovery keeps the most
\* recent floor(n/2) entries and the failed write is retried once, so that
\* (the space being there once the eviction is written) the data is stored
\* and the operation does not report failure.
C3_QuotaRecoveryRetries ==
    [][(/\ QuotaFailed(last', access')
        /\ last'.wr.evict = "ok"
        /\ Len(loadHistory(W)) > QUOTA_MIN_HISTORY)
       => /\ ret' = "true"
          /\ DataStored(last', reportData', reportHistory')]_vars

\* C4: when a draft save or a history append fails with quota-exceeded and
\* the stored history has 5 or fewer entries, no eviction is attempted: the
\* failed setItem is the only write, the stored history is exactly as it
\* was, and the operation returns false.  A stored history is the text of
\* an array, or no text, or one that does not parse and is read as [].
C4_NoEvictionAtFiveOrFewer ==
    [][(/\ QuotaFailed(last', access')
        /\ loadHistory_isArray(W)
        /\ Len(loadHistory(W)) <= QUOTA_MIN_HISTORY)
       => /\ reportHistory' = reportHistory
          /\ access'.setItem = 1
          /\ ret' = "false"]_vars

\* a history append on a stored history of exactly 5 entries hit the quota
C4_Witness ==
    /\ last.op = "saveToHistory"
    /\ QuotaFailed(last, access)
    /\ Len(loadHistory(W)) = QUOTA_MIN_HISTORY
    /\ ret = "false"

\* C5: a successful history append leaves at most 20 entries, the entry
\* just appended at index 0, the entries stored before behind it in their
\* previous order, and on a history of 20 drops exactly the oldest one.
C5_HistoryCappedNewestFirst ==
    [][(last'.op = "saveToHistory" /\ ret' = "true")
       => LET old == loadHistory(W)
              new == reportHistory'.val
          IN  /\ reportHistory'.kind = "value"
              /\ Len(new) <= MAX_HISTORY_ITEMS
              /\ Len(new) = Min(Len(old) + 1, MAX_HISTORY_ITEMS)
              /\ new[1].data = last'.data
              /\ \A i \in 2..Len(new) : new[i] = old[i - 1]]_vars

\* an append to a full history: the entry read in this session is in front, the
\* oldest of the 20 found is gone and the second oldest is now last
C5_Witness ==
    /\ last.op = "saveToHistory"
    /\ ret = "true"
    /\ Len(loadHistory(W)) = MAX_HISTORY_ITEMS
    /\ loadHistory(W)[1].timestamp >= 0
    /\ loadHistory(W)[MAX_HISTORY_ITEMS] = PastEntry(MAX_HISTORY_ITEMS - 1)

\* no workBom, no projectName, and no task with a non-empty detail
SemanticallyEmpty(data) ==
    /\ data.workBom = ""
    /\ data.projectName = ""
    /\ (Has(data, "tasks") => \A i \in 1..Len(data.tasks) : data.tasks[i].detail = "")

\* C6: appending a semantically empty snapshot returns false and writes
\* nothing: the stored history is the same before and after, whatever it
\* holds and however often the append is repeated.
C6_EmptySnapshotNeverAppended ==
    [][(last'.op = "saveToHistory" /\ SemanticallyEmpty(last'.data))
       => /\ ret' = "false"
          /\ reportHistory' = reportHistory
          /\ access'.setItem = 0]_vars

\* the snapshot with one blank task was refused, with storage available,
\* after an earlier append of this session had succeeded
C6_Witness ==
    /\ last.op = "saveToHistory"
    /\ last.data = BlankSnapshot
    /\ isAvailable
    /\ clock >= 1
    /\ Len(loadHistory(W)) >= 1
    /\ loadHistory(W)[1].timestamp >= 0
    /\ ret = "false"

\* C7: only a semantically empty snapshot is refused: with storage
\* available and the write succeeding, appending a snapshot with a workBom,
\* a projectName or a task with non-empty detail at any position returns
\* true and puts an entry holding that snapshot in front.
C7_NonEmptySnapshotAppended ==
    [][(/\ last'.op = "saveToHistory"
        /\ isAvailable
        /\ last'.wr.main = "ok"
        /\ ~SemanticallyEmpty(last'.data))
       => /\ ret' = "true"
          /\ DataStored(last', reportData', reportHistory')
          /\ Len(reportHistory'.val) = Min(Len(loadHistory(W)) + 1, MAX_HISTORY_ITEMS)]_vars

(***************************************************************************)
(* Claims about the generated report (SpecGenerate).                       *)
(***************************************************************************)
\* the tasks a report includes: those with a non-empty detail, in list order
Included(ts) == SelectSeq(ts, LAMBDA t : t.detail # "")

Lines(text) == {text[j] : j \in 1..Len(text)}

\* C2: tasks with empty detail are left out of the report and the others
\* are numbered among themselves: the k-th task with a non-empty detail is
\* printed with the number k, so the numbers are 1, 2, ..., m without gaps.
C2_NumbersOverIncludedTasks ==
    last.op = "generateReport" =>
        \A k \in 1..Len(Included(tasks)) :
            NumberedLine(k, Included(tasks)[k]) \in Lines(output)

(***************************************************************************)
(* Claims about the report state (SpecReport).                             *)
(***************************************************************************)
\* C10 as claimed: restoring from the snapshot getState returns leaves the
\* scalar fields and the task array as they were, in every live state, the
\* one with an empty task list included.
C10_RoundTripEveryState ==
    [][last'.op = "restoreFromHistory(getState())" =>
        /\ state' = state
        /\ tasks' = tasks]_vars

\* C10 as amended: the scalar fields always come back as they were, and so
\* does a task list that holds at least one record, in length and order;
\* an empty task list comes back as one blank task.
C10_RoundTrip ==
    [][last'.op = "restoreFromHistory(getState())" =>
        /\ state' = state
        /\ tasks' = IF Len(tasks) > 0 THEN tasks ELSE <<BlankTask>>]_vars

\* a round trip through a state with scalar fields set and two different
\* tasks
C10_Witness ==
    /\ last.op = "restoreFromHistory(getState())"
    /\ state.workBom # ""
    /\ state.problems # ""
    /\ Len(tasks) >= 2
    /\ tasks[1] # tasks[2]

(***************************************************************************)
(* Claims about the application (Spec).                                    *)
(***************************************************************************)
\* the handlers of the user actions that change the live report
MutatingActions ==
    {"input workBom", "handleAddTask", "input task-detail",
     "remove-task-button", "move-up-btn", "move-down-btn", "handleConfirm"}

\* C1: with storage available and every write succeeding, once the handler
\* of a user action that changes the report has returned, the persisted
\* draft equals the live snapshot: the same workBom, projectName and
\* problems and the same task records in the same order.
C1_DraftEqualsLiveSnapshot ==
    [][(/\ last'.op \in MutatingActions
        /\ isAvailable
        /\ access'.threw = 0)
       => reportData' = Stored(Snapshot(state', tasks'))]_vars

(***************************************************************************)
(* More claims about the bare task list (SpecTasks).                       *)
(***************************************************************************)
\* the operation that ran last changed the structure of the list
Structural(l) ==
    l.op \in {"addTask", "removeTask", "moveTaskUp", "moveTaskDown", "clearTasks"}

\* C11: a structural operation that succeeds calls the subscribers of the
\* task list, and an updateTask on an index in range changes the record and
\* calls no subscriber of the task list.
C11_OnlyStructuralOpsNotify ==
    [][/\ (Structural(last') /\ ret' # "false") => taskNotified' >= 1
       /\ (last'.op = "updateTask" /\ ret' = "true") => taskNotified' = 0]_vars

\* the index the operation was handed is outside [0, length) of the list of
\* length n it ran on
OutOfRange(l, n) == l.index < 0 \/ l.index >= n

\* C12: updateTask and removeTask with an index outside [0, length) return
\* false, leave every record and the length alone and notify nobody; with an
\* index in range updateTask gives the record at that index the fields named
\* in the update, keeps its other fields, and leaves every other record and
\* the order as they were.
C12_UpdateAndRemoveRangeChecked ==
    [][/\ (last'.op \in {"updateTask", "removeTask"} /\ OutOfRange(last', Len(tasks)))
            => /\ ret' = "false"
               /\ tasks' = tasks
               /\ taskNotified' = 0
               /\ reportNotified' = 0
       /\ (last'.op = "updateTask" /\ ~OutOfRange(last', Len(tasks)))
            => /\ ret' = "true"
               /\ Len(tasks') = Len(tasks)
               /\ \A k \in 1..Len(tasks) :
                    IF k = last'.index + 1
                    THEN \A f \in DOMAIN tasks[k] :
                            tasks'[k][f] = IF f \in DOMAIN last'.updates
                                           THEN last'.updates[f]
                                           ELSE tasks[k][f]
                    ELSE tasks'[k] = tasks[k]]_vars

\* the middle record of three was given a new detail and kept its status
\* and remark, which differ from a blank task's
C12_Witness ==
    /\ last.op = "updateTask"
    /\ last.index = 1
    /\ ret = "true"
    /\ Len(tasks) = 3
    /\ tasks[2] = Task("a", "NG", "r")
    /\ tasks[1] # tasks[2]

\* the list after is the list before with the records at the zero-based
\* positions i and i + 1 exchanged, every other position as it was
Transposed(before, after, i) ==
    /\ Len(after) = Len(before)
    /\ after[i + 1] = before[i + 2]
    /\ after[i + 2] = before[i + 1]
    /\ \A k \in 1..Len(before) : k \notin {i + 1, i + 2} => after[k] = before[k]

\* the two lists hold the same records, each as often
SameRecords(before, after) ==
    /\ Len(after) = Len(before)
    /\ \A k \in 1..Len(before) :
            Cardinality({j \in 1..Len(after) : after[j] = before[k]})
                = Cardinality({j \in 1..Len(before) : before[j] = before[k]})

\* C27: moveTaskUp(i) for 0 < i < length exchanges the records at i-1 and
\* i, moveTaskDown(i) for 0 <= i < length-1 those at i and i+1; both return
\* true, leave every other position alone and keep the records the list
\* holds; moveTaskDown(i-1) on the list moveTaskUp(i) has left gives the
\* list back as it was.
C27_MovesAreAdjacentTranspositions ==
    [][/\ (last'.op = "moveTaskUp" /\ 0 < last'.index /\ last'.index < Len(tasks))
            => /\ ret' = "true"
               /\ Transposed(tasks, tasks', last'.index - 1)
               /\ SameRecords(tasks, tasks')
               /\ LET back == moveTaskDown([Begin EXCEPT !.tasks = tasks'],
                                            last'.index - 1)
                  IN  back.ret = "true" /\ back.tasks = tasks
       /\ (last'.op = "moveTaskDown" /\ 0 <= last'.index /\ last'.index < Len(tasks) - 1)
            => /\ ret' = "true"
               /\ Transposed(tasks, tasks', last'.index)
               /\ SameRecords(tasks, tasks')]_vars

\* the second of three records, each different from its neighbour, went
\* down to the end
C27_Witness ==
    /\ last.op = "moveTaskDown"
    /\ last.index = 1
    /\ ret = "true"
    /\ Len(tasks) = 3
    /\ tasks[1] # tasks[2]
    /\ tasks[2] # tasks[3]

(***************************************************************************)
(* More claims about the report state (SpecReport).                        *)
(***************************************************************************)
\* the snapshot a restore step was handed: the argument of
\* restoreFromHistory, the data member of import's envelope
Incoming(l) == IF l.op = "import" THEN l.data.data ELSE l.data

\* the step restored from a snapshot, by either way
Restored(l) ==
    \/ l.op = "restoreFromHistory"
    \/ l.op = "import" /\ Has(l.data, "data")

\* C13: a restore, through restoreFromHistory or through import, replaces the
\* scalar fields and the task list by the snapshot's, and when the snapshot
\* has no tasks (an empty list, or no tasks member) the task list afterwards
\* is exactly one blank task.
C13_RestoreReplacesWholesale ==
    [][Restored(last') =>
        LET data == Incoming(last')
        IN  /\ state' = StateFrom(data)
            /\ tasks' = IF Has(data, "tasks") /\ Len(data.tasks) > 0
                        THEN data.tasks
                        ELSE <<BlankTask>>]_vars

\* C14: import of an envelope without a data member returns false and
\* changes nothing: the scalar fields, the task list, the stored draft and
\* the stored history are as they were, localStorage is not touched and no
\* subscriber is notified.
C14_ImportWithoutDataChangesNothing ==
    [][(last'.op = "import" /\ ~Has(last'.data, "data")) =>
        /\ ret' = "false"
        /\ state' = state
        /\ tasks' = tasks
        /\ reportData' = reportData
        /\ reportHistory' = reportHistory
        /\ access' = NoAccess
        /\ taskNotified' = 0
        /\ reportNotified' = 0]_vars

\* an envelope without data was refused in a state with fields and tasks set
C14_Witness ==
    /\ last.op = "import"
    /\ ~Has(last.data, "data")
    /\ ret = "false"
    /\ state.workBom # ""
    /\ state.problems # ""
    /\ Len(tasks) >= 2

\* C16: clearTasks empties problems, leaves exactly one blank task, and
\* leaves workBom and projectName as they were.
C16_ClearTasksKeepsBomAndProject ==
    [][last'.op = "clearTasks" =>
        /\ state'.problems = ""
        /\ tasks' = <<BlankTask>>
        /\ state'.workBom = state.workBom
        /\ state'.projectName = state.projectName]_vars

\* tasks were cleared in a state that keeps its workBom and projectName
C16_Witness ==
    /\ last.op = "clearTasks"
    /\ state.workBom # ""
    /\ state.projectName # ""
    /\ state.problems = ""
    /\ tasks = <<BlankTask>>

\* C17: resetAll leaves workBom, projectName and problems empty and exactly
\* one blank task, and the draft it writes, when the write goes through,
\* holds that state.
C17_ResetAllLeavesBlankReport ==
    [][last'.op = "resetAll" =>
        /\ state' = EmptyState
        /\ tasks' = <<BlankTask>>
        /\ (isAvailable /\ access'.threw = 0)
            => /\ access'.setItem = 1
               /\ reportData' = Stored(Snapshot(EmptyState, <<BlankTask>>))]_vars

\* a reset whose draft write went through
C17_Witness ==
    /\ last.op = "resetAll"
    /\ isAvailable
    /\ access.setItem = 1
    /\ access.threw = 0
    /\ reportData = Stored(Snapshot(EmptyState, <<BlankTask>>))

(***************************************************************************)
(* More claims about the application (Spec).                               *)
(***************************************************************************)
\* the entries localStorage holds under 'reportHistory'
StoredHistory(item) == IF item.kind = "value" THEN item.val ELSE <<>>

\* C15: no step of the page changes an entry of the stored history: the
\* entries stored after the step are entries stored before it, unchanged and
\* in their order, behind the one entry a copy may have put in front.  So a
\* later edit of the live report, after a copy or after restoring an entry,
\* leaves every stored entry as it was saved.
C15_HistoryEntriesIsolated ==
    [][LET old == StoredHistory(reportHistory)
           new == StoredHistory(reportHistory')
       IN  \E k \in {0, 1} :
            /\ k = 1 => last'.op = "handleCopy"
            /\ Len(new) >= k
            /\ Len(new) - k <= Len(old)
            /\ \A j \in (k + 1)..Len(new) : new[j] = old[j - k]]_vars

\* the entry this session copied is in front of the stored history; it was
\* rendered in the history modal, selected and restored, so that its tasks
\* array is the live list; a task has since been added to the list, which
\* the item of the page shows and the stored entry does not
C15_Witness ==
    /\ last.op = "handleAddTask"
    /\ aliased = 1
    /\ ~historyShown
    /\ reportHistory.kind = "value"
    /\ Len(reportHistory.val) = 3
    /\ reportHistory.val[1].timestamp >= 0
    /\ historyList[1].data.tasks = tasks
    /\ reportHistory.val[1].data.tasks # tasks

\* the steps that request a destructive action, and those that settle one
Requests == {"handleClearTasks", "handleResetAll", "select history item"}

Settles == {"handleConfirm", "handleCancelModal"}

\* the step left the live report, the stored draft and the stored history
\* as they were
ReportUntouched ==
    /\ state' = state
    /\ tasks' = tasks
    /\ reportData' = reportData
    /\ reportHistory' = reportHistory

\* C28: a destructive action is carried out by the confirm handler and by
\* nothing else.  Requesting reset all, clear tasks or the restore of a
\* history entry records the request and leaves the live report alone; no
\* step but a request changes what is pending, so that what is pending is
\* the latest request; confirm carries out what is pending and nothing
\* when nothing is; after confirm and after cancel pendingAction and
\* pendingRestoreData are null, so that a request is carried out at most
\* once; cancel leaves the live report, the stored draft and the stored
\* history as they were.
C28_ConfirmProtocol ==
    [][/\ last'.op \in Requests \cup {"handleCancelModal"} => ReportUntouched
       /\ last'.op = "handleClearTasks" => pendingAction' = "clearTasks"
       /\ last'.op = "handleResetAll" => pendingAction' = "resetAll"
       /\ last'.op = "select history item"
            => /\ pendingAction' = "restoreHistory"
               /\ pendingRestoreData' = Stored(historyList[last'.index + 1].data)
       /\ last'.op \notin Requests \cup Settles
            => /\ pendingAction' = pendingAction
               /\ pendingRestoreData' = pendingRestoreData
       /\ last'.op \in Settles
            => /\ pendingAction' = "null"
               /\ pendingRestoreData' = Absent(NoSnapshot)
       /\ last'.op = "handleConfirm"
            => IF pendingAction = "resetAll"
               THEN state' = EmptyState /\ tasks' = <<BlankTask>>
               ELSE IF pendingAction = "clearTasks"
               THEN /\ state' = [state EXCEPT !.problems = ""]
                    /\ tasks' = <<BlankTask>>
               ELSE IF pendingAction = "restoreHistory"
               THEN /\ pendingRestoreData.kind = "value"
                    /\ state' = StateFrom(pendingRestoreData.val)
                    /\ tasks' = IF Has(pendingRestoreData.val, "tasks")
                                   /\ pendingRestoreData.val.tasks # <<>>
                                THEN pendingRestoreData.val.tasks
                                ELSE <<BlankTask>>
               ELSE ReportUntouched /\ access' = NoAccess]_vars


(***************************************************************************)
(* More claims about the persistence layer (SpecStorage).                  *)
(***************************************************************************)
\* C18: the theme has a key of its own: clearAll leaves the stored theme as
\* it was and, when it succeeds, leaves no stored draft and no stored
\* history; saveTheme leaves the stored draft and the stored history as they
\* were and, when it succeeds, stores the theme it was handed.
C18_ThemeKeyIndependent ==
    [][/\ last'.op = "clearAll"
            => /\ theme' = theme
               /\ ret' = "true"
                    => reportData'.kind = "absent" /\ reportHistory'.kind = "absent"
       /\ last'.op = "saveTheme"
            => /\ reportData' = reportData
               /\ reportHistory' = reportHistory
               /\ ret' = "true" => theme' = Stored(last'.theme)]_vars

\* clearAll succeeded in a session that had saved its theme and appended to
\* the history: the theme is still stored
C18_Witness ==
    /\ last.op = "clearAll"
    /\ ret = "true"
    /\ clock >= 1
    /\ theme = Stored("light")
    /\ reportData.kind = "absent"
    /\ reportHistory.kind = "absent"

\* what each operation of the layer returns when it does nothing
Fallback ==
    [saveReportData |-> "false", loadReportData |-> "null",
     saveToHistory |-> "false", loadHistory |-> "[]", clearHistory |-> "false",
     getTheme |-> "light", saveTheme |-> "false", hasSpace |-> "false",
     clearAll |-> "false"]

\* C19: with storage found unavailable at construction, every operation of
\* the layer returns its fallback, makes no call on localStorage, changes
\* nothing stored, and does not throw; getStats, which has no fallback of
\* the kind, returns its statistics under the same conditions.
C19_UnavailableShortCircuits ==
    [][(~isAvailable /\ last'.op \in DOMAIN Fallback \cup {"getStats"})
        => /\ access' = NoAccess
           /\ ret' # "throws"
           /\ last'.op \in DOMAIN Fallback => ret' = Fallback[last'.op]
           /\ reportData' = reportData
           /\ reportHistory' = reportHistory
           /\ theme' = theme]_vars

\* C20: loading throws nothing and gives the fallback: loadReportData
\* returns the stored snapshot, or null when the key is missing or its text
\* does not parse; loadHistory returns an array, the empty one when the key
\* is missing or its text is not that of an array.
C20_LoadsFallBack ==
    [][/\ last'.op = "loadReportData"
            => /\ ret' # "throws"
               /\ IF isAvailable /\ reportData.kind = "value"
                  THEN loadReportData(W) = reportData /\ ret' = "{...}"
                  ELSE loadReportData(W).kind = "absent" /\ ret' = "null"
       /\ last'.op = "loadHistory"
            => /\ ret' # "throws"
               /\ loadHistory_isArray(W)
               /\ ret' \in {"[]", "[...]"}
               /\ reportHistory.kind # "value" => ret' = "[]"]_vars

\* C29 as claimed: a draft save leaves the stored history as it was,
\* whatever the outcome of its write: stored, refused for the quota, or
\* failed otherwise.
C29_DraftSaveKeepsHistory ==
    [][last'.op = "saveReportData" => reportHistory' = reportHistory]_vars

\* C29 as amended: a draft save leaves what is stored under the history
\* key as it was in every outcome but one: when its write is refused for
\* the quota and the stored history holds more than 5 entries, the history
\* is cut to its most recent floor(n/2) entries, provided the write of the
\* cut history goes through; and when what is stored is no array but an
\* object with a member length above 5, that member is set to
\* floor(length/2) under the same conditions.
C29_DraftSaveEvictsOnQuotaOnly ==
    [][last'.op = "saveReportData" =>
        LET old == loadHistory(W)
            refused == QuotaFailed(last', access') /\ last'.wr.evict = "ok"
        IN  IF refused /\ Len(old) > QUOTA_MIN_HISTORY
            THEN reportHistory' = Stored(SubSeq(old, 1, Len(old) \div 2))
            ELSE IF /\ refused
                    /\ reportHistory.kind = "arraylike"
                    /\ reportHistory.length > QUOTA_MIN_HISTORY
            THEN reportHistory' = ArrayLike(reportHistory.val,
                                            reportHistory.length \div 2, FALSE)
            ELSE reportHistory' = reportHistory]_vars

\* a draft save was refused for the quota over a history of 6 entries: the
\* 3 most recent are left
C29_Witness ==
    /\ last.op = "saveReportData"
    /\ QuotaFailed(last, access)
    /\ ret = "false"
    /\ access.setItem = 2
    /\ reportHistory = Stored([k \in 1..3 |-> PastEntry(k)])

(***************************************************************************)
(* Claims about validation and the copy button (SpecCopy).                 *)
(***************************************************************************)
\* the errors as a set, and the positions of the tasks over a limit
ErrorSet(errors) == {errors[j] : j \in 1..Len(errors)}

TooLong(ts, f, limit) == {i \in 1..Len(ts) : Len(ts[i][f]) > limit}

\* the errors the task records call for, each carrying its index
TaskViolations(ts) ==
    {[index |-> i - 1, field |-> "detail"] : i \in TooLong(ts, "detail", 500)}
    \cup {[index |-> i - 1, field |-> "remark"] : i \in TooLong(ts, "remark", 200)}

\* the errors the claim calls for, given which values of workBom and
\* projectName it takes to be in order
Violations(bomInOrder, projectInOrder, ts) ==
    (IF bomInOrder THEN {} ELSE {[field |-> "workBom"]})
    \cup (IF projectInOrder THEN {} ELSE {[field |-> "projectName"]})
    \cup TaskViolations(ts)

\* validate returned, with these errors, what the violations call for
Validated(l, r, expected) ==
    /\ r \in {"{valid: true}", "{valid: false}"}
    /\ r = "{valid: true}" <=> expected = {}
    /\ ErrorSet(l.errors) = expected
    /\ Len(l.errors) = Cardinality(expected)

\* C21 as claimed: validate does not throw; it returns valid = true exactly
\* when workBom is empty or matches WB-, a letter, 4 digits, -, 4 digits, -,
\* a letter in either case, projectName is empty or has 3 to 200 characters
\* after trimming, and every task has a detail of at most 500 and a remark
\* of at most 200 characters; its errors are one per violation, those of the
\* tasks carrying the index of the record.
C21_ValidateAsClaimed ==
    [][last'.op = "validate" =>
        Validated(last', ret',
            Violations(state.workBom = "" \/ MatchesWorkBom(state.workBom),
                       \/ state.projectName = ""
                       \/ Len(StrTrim(state.projectName)) \in 3..200,
                       tasks))]_vars

\* C21 as amended: workBom and projectName are both taken trimmed, so that
\* a value of white space alone is in order as the empty one is, and a
\* workBom is matched against the pattern without the white space around
\* it.  "WB-S2407-0105-A" passes, "WB-24-0105-A" fails, "" passes.
C21_ValidateTrimmed ==
    [][last'.op = "validate" =>
        /\ Validated(last', ret',
            Violations(\/ StrTrim(state.workBom) = ""
                       \/ MatchesWorkBom(StrTrim(state.workBom)),
                       \/ StrTrim(state.projectName) = ""
                       \/ Len(StrTrim(state.projectName)) \in 3..200,
                       tasks))
        /\ state.workBom \in {"WB-S2407-0105-A", ""}
            => [field |-> "workBom"] \notin ErrorSet(last'.errors)
        /\ state.workBom = "WB-24-0105-A"
            => [field |-> "workBom"] \in ErrorSet(last'.errors)]_vars

\* validate found a malformed workBom, a projectName too short once trimmed,
\* and, in the second task, a detail and a remark that are too long
C21_Witness ==
    /\ last.op = "validate"
    /\ ret = "{valid: false}"
    /\ state.workBom = "WB-24-0105-A"
    /\ state.projectName = " ab "
    /\ ErrorSet(last.errors) =
        {[field |-> "workBom"], [field |-> "projectName"],
         [index |-> 1, field |-> "detail"], [index |-> 1, field |-> "remark"]}

\* the entry in front of the history carries the given reading of the clock
Appended(history, reading) ==
    /\ history.kind = "value"
    /\ Len(history.val) >= 1
    /\ history.val[1].timestamp = reading

\* nothing was put into the history: what is stored is what was, or the
\* first entries of it
NoneAppended(old, new) ==
    \/ new = old
    \/ /\ old.kind = "value"
       /\ new.kind = "value"
       /\ Len(new.val) <= Len(old.val)
       /\ new.val = SubSeq(old.val, 1, Len(new.val))

\* C26: the copy button validates first.  When the validation fails, the
\* history is not touched, no report is put in the page or handed to the
\* clipboard, and the live report is as it was.  When it passes, the history
\* append is attempted on the live snapshot, the report is generated from
\* that same snapshot, which neither of the two changes, and the report is
\* put in the page and handed to the clipboard whether the append was
\* refused, failed or went through.
C26_CopyValidatesFirst ==
    [][last'.op = "handleCopy" =>
        /\ state' = state
        /\ tasks' = tasks
        /\ IF validate(W) # <<>>
           THEN /\ reportHistory' = reportHistory
                /\ access' = NoAccess
                /\ clock' = clock
                /\ output' = output
                /\ last'.copied = <<>>
           ELSE /\ output' = generateReport(W, last'.dateStr)
                /\ last'.copied = output'
                /\ (isAvailable /\ ~IsEmptyReport(Snapshot(state, tasks)))
                    => access'.getItem >= 1
                /\ IF /\ isAvailable
                      /\ ~IsEmptyReport(Snapshot(state, tasks))
                      /\ loadHistory_isArray(W)
                      /\ last'.wr.main = "ok"
                   THEN /\ Appended(reportHistory', time')
                        /\ reportHistory'.val[1].data = Snapshot(state, tasks)
                        /\ Len(reportHistory'.val) > 1
                            => reportHistory'.val[2] = loadHistory(W)[1]
                   ELSE NoneAppended(reportHistory, reportHistory')]_vars

\* a copy that failed the validation, after a copy of this session that
\* passed it and appended to the history: the page still shows the earlier
\* report
C26_Witness ==
    /\ last.op = "handleCopy"
    /\ validate(W) # <<>>
    /\ last.copied = <<>>
    /\ output # <<>>
    /\ clock >= 1
    /\ Appended(reportHistory, time)

(***************************************************************************)
(* More claims about the generated report (SpecGenerate).                  *)
(***************************************************************************)
\* where the task heading stands in a report, and where its task block
\* ends: in front of the separator that the problems heading follows, or
\* with the text
HeadingAt(text) ==
    CHOOSE h \in 1..Len(text) :
        text[h] = TasksHeading /\ \A j \in 1..(h - 1) : text[j] # TasksHeading

ProblemsAt(text) ==
    {p \in (HeadingAt(text) + 1)..(Len(text) - 1) :
        text[p] = separator /\ text[p + 1] = ProblemsHeading}

BlockOf(text) ==
    SubSeq(text, HeadingAt(text) + 1,
           IF ProblemsAt(text) = {} THEN Len(text)
           ELSE (CHOOSE p \in ProblemsAt(text) : \A q \in ProblemsAt(text) : p <= q) - 1)

\* the lines the claim calls for, as slots: per task with a detail, in list
\* order, its detail, its status and, for a remark other than "" and "-",
\* its remark
RECURSIVE Slots(_, _)
Slots(ts, n) ==
    IF n = 0 THEN <<>>
    ELSE Slots(ts, n - 1)
         \o (IF ts[n].detail = "" THEN <<>>
             ELSE <<[kind |-> "detail", task |-> n], [kind |-> "status", task |-> n]>>
                  \o (IF ts[n].remark \in {"", "-"} THEN <<>>
                      ELSE <<[kind |-> "remark", task |-> n]>>))

\* the line fills the slot; the last line of a text has lost the blanks at
\* its end
Fills(line, slot, ts, isLast) ==
    LET task == ts[slot.task]
        wanted == IF slot.kind = "detail"
                  THEN {NumberedLine(k, task) : k \in 1..Len(ts)}
                  ELSE IF slot.kind = "status" THEN {StatusLine(task)}
                  ELSE {RemarkLine(task)}
    IN  \E l \in wanted : line = l \/ (isLast /\ line = TrimEnd(l))

\* C22: in the report every task with a non-empty detail contributes, in
\* list order, a numbered detail line, right behind it its status line, and
\* behind that a remark line exactly when its remark is neither empty nor
\* "-"; a task with an empty detail contributes no line; the line for 'no
\* items' stands in the task block exactly when no task has a detail, and
\* then it is the one line of the block.
C22_TaskBlockLines ==
    last.op = "generateReport" =>
        LET block == BlockOf(output)
            slots == Slots(tasks, Len(tasks))
            endsText == ProblemsAt(output) = {}
        IN  IF slots = <<>>
            THEN block = <<NoItemsLine>>
            ELSE /\ Len(block) = Len(slots)
                 /\ \A j \in 1..Len(slots) :
                        /\ Fills(block[j], slots[j], tasks, endsText /\ j = Len(slots))
                        /\ block[j] # NoItemsLine

\* a report of three tasks and no problems: a remark of "-", an empty detail
\* in the middle, and a remark that ends the text
C22_Witness ==
    /\ last.op = "generateReport"
    /\ Len(tasks) = 3
    /\ tasks[1] = Task("a", "OK", "-")
    /\ tasks[2].detail = ""
    /\ tasks[3] = Task("a", "OK", "r ")
    /\ state.problems = ""
    /\ Len(BlockOf(output)) = 5

\* C23: the report is, in this order, the date line, the Work BOM line, the
\* Project line, a separator, the task heading with the task block, a
\* separator, the problems heading and the problems text; the Work BOM line
\* is there exactly when workBom is non-empty, the Project line exactly when
\* projectName is non-empty, the first separator exactly when one of the two
\* is, and the second separator with the problems heading and the problems
\* text exactly when problems is non-empty; the date line and the task
\* heading are always there.
C23_SectionOrder ==
    last.op = "generateReport" =>
        output = <<DateLine(last.dateStr)>>
                 \o (IF state.workBom # "" THEN <<BomLine(state.workBom)>> ELSE <<>>)
                 \o (IF state.projectName # ""
                     THEN <<ProjectLine(state.projectName)>> ELSE <<>>)
                 \o (IF state.workBom # "" \/ state.projectName # ""
                     THEN <<separator>> ELSE <<>>)
                 \o <<TasksHeading>>
                 \o BlockOf(output)
                 \o (IF state.problems # ""
                     THEN <<separator, ProblemsHeading, state.problems>>
                     ELSE <<>>)

\* C24: producing the report changes neither the scalar fields, the task
\* list, the stored draft nor the stored history, touches localStorage not
\* at all and calls no subscriber; and its text depends on the snapshot
\* and the reference timestamp supplied only: a generation that follows
\* another with the same timestamp supplied, the snapshot being the same
\* (no generation changes it), gives the same text.
C24_GenerationIsPure ==
    [][last'.op = "generateReport" =>
        /\ state' = state
        /\ tasks' = tasks
        /\ reportData' = reportData
        /\ reportHistory' = reportHistory
        /\ theme' = theme
        /\ access' = NoAccess
        /\ taskNotified' = 0
        /\ reportNotified' = 0
        /\ (last.op = "generateReport" /\ last.supplied = last'.supplied)
                => output' = output]_vars


(***************************************************************************)
(* Claims about the start of a session (SpecReport).                       *)
(***************************************************************************)
\* C25: load, run on the report as constructed, leaves the scalar fields
\* and the tasks of the stored draft when there is one to read, with one
\* blank task in place of tasks the draft does not have, and otherwise
\* empty scalar fields and one blank task; the task list holds at least one
\* record in every case, and load writes nothing to localStorage.
C25_LoadAtStartup ==
    [][(last.op = "constructor" /\ last'.op = "load") =>
        LET found == isAvailable /\ reportData.kind = "value"
            draft == reportData.val
        IN  /\ IF found
               THEN /\ \A f \in DOMAIN EmptyState :
                        state'[f] = IF Has(draft, f) THEN draft[f] ELSE ""
                    /\ tasks' = IF Has(draft, "tasks") /\ draft.tasks # <<>>
                                THEN draft.tasks
                                ELSE <<BlankTask>>
               ELSE /\ state' = EmptyState
                    /\ tasks' = <<BlankTask>>
            /\ Len(tasks') >= 1
            /\ access'.setItem = 0
            /\ access'.removeItem = 0
            /\ reportData' = reportData
            /\ reportHistory' = reportHistory
            /\ theme' = theme]_vars

\* the draft with a Work BOM and an empty task list has been loaded: the
\* Work BOM is live and one blank task stands in for the tasks
C25_Witness ==
    /\ last.op = "load"
    /\ ret = "true"
    /\ reportData = Stored(BomSnapshot)
    /\ state = BomOnly
    /\ tasks = <<BlankTask>>
    /\ access.getItem = 1
    /\ access.setItem = 0

====
